---- MODULE Spec2Model ----
(***************************************************************************)
(* A model of the shared worker of @ava/cooperate (source/worker.ts) and   *)
(* of the client-side handles that talk to it (source/index.ts).           *)
(*                                                                         *)
(* The worker is single threaded: every handler, reply-loop iteration and  *)
(* teardown callback runs to completion, so each is one action.  A message *)
(* is identified by its id; ids grow in arrival order, so the position of  *)
(* a message in lmsgs / smsgs is its id.                                   *)
(***************************************************************************)
EXTENDS Integers, Sequences, FiniteSets, TLC

\* ------------------------------------------------------------------ bounds
MaxLockMsgs == 4
MaxSemMsgs == 4
MaxZeroMsgs == 3
MaxHandleMsgs == 3
MaxClientMsgs == 3
MaxReserveMsgs == 2
MaxValues == 2
MaxContextMsgs == 2
MaxReplyMsgs == 2
MaxLiveMsgs == 3
MaxCallMsgs == 1
MaxReleaseMsgs == 2

Clients == {"w1", "w2"}
Contexts == {"ctx"}
\* The context ids of the worker's sharedContexts; the second one is used by
\* the test files that share a worker with those of the first.
AllContexts == {"ctx", "ctx2"}
LockIds == {"l1", "l2"}
SemIds == {"s1"}
\* The amounts and initial values the clients use (non-negative safe integers).
Amounts == {1, 2}
InitialValues == {0, 2}
\* The values the clients reserve, and the argument lists of reserve().
Values == {6, 42}
ValueLists == UNION {[1..n -> Values] : n \in 0..MaxValues}
\* The amounts a release handle is called with: releasing 0 is allowed.
ReleaseAmounts == {0} \cup Amounts
\* The amounts of clients that also ask for nothing: acquire(0), up(0).
AmountsFromZero == {0} \cup Amounts
\* The two revisions of the worker in the repository.
Revisions == {"worker.ts", "part_005"}

VARIABLES
    connected,  \* test worker (client) -> has not exited yet
    locks,      \* context.locks of every context: lockId -> entry
    lmsgs,      \* the LOCK messages received, by id: the closure of each
                \* acquireLock call (queued: it pushed its notify to waiting)
    sems,       \* context.semaphores of every context: id -> Semaphore
    smsgs,      \* the SEMAPHORE_DOWN and SEMAPHORE_UP messages received, by id:
                \* the closure of each downSemaphore / upSemaphore call and the
                \* amount left in the client's release handle
    revision,   \* the revision of the worker that runs
    reserved,   \* context.reservedValues of every context
    rmsgs,      \* the RESERVE messages received, by id: the closure of each
                \* reserve call and the reply it sent
    call        \* the last call or message of a test: its argument, the
                \* message its handle belongs to (id), whether it threw

vars == <<connected, locks, lmsgs, sems, smsgs, revision, reserved, rmsgs,
          call>>

resVars == <<reserved, rmsgs>>

clientVars == <<call>>

semVars == <<sems, smsgs, revision>>

lockVars == <<locks, lmsgs>>

\* ------------------------------------------------------------------- locks

\* What context.locks.get(lockId) yields for an id the Map does not hold.
NoLock == [present |-> FALSE, holderId |-> 0, waiting |-> <<>>]

LockIdsOfMsgs == 1..Len(lmsgs)

\* Some teardown callback of an exited test worker has not run yet: the host
\* runs all of them before the worker handles the next message.
LockTeardownPending == \E id \in LockIdsOfMsgs :
    ~connected[lmsgs[id].client] /\ lmsgs[id].hook = "armed"

SemTeardownPending == \E id \in 1..Len(smsgs) :
    smsgs[id].hook = "armed" /\ ~connected[smsgs[id].client]

ReserveTeardownPending == \E id \in 1..Len(rmsgs) :
    rmsgs[id].hook = "armed" /\ ~connected[rmsgs[id].client]

TeardownPending ==
    LockTeardownPending \/ SemTeardownPending \/ ReserveTeardownPending

\* The teardown callback of acquireLock for message id, on the lock table ls
\* of its context.  notify is the id of the waiter whose notify() it calls
\* (0: none).
TransferToLast(ls, lockId, id) ==
    LET current == ls[lockId] IN
    IF ~current.present THEN [locks |-> ls, notify |-> 0]
    ELSE IF current.holderId # id
    THEN [locks |-> [ls EXCEPT ![lockId].waiting =
                        SelectSeq(current.waiting, LAMBDA h : h # id)],
          notify |-> 0]
    ELSE IF current.waiting = <<>>
    THEN [locks |-> [ls EXCEPT ![lockId] = NoLock], notify |-> 0]
    ELSE LET n == Len(current.waiting) IN
         [locks |-> [ls EXCEPT ![lockId] =
                        [present |-> TRUE,
                         holderId |-> current.waiting[n],
                         waiting |-> SubSeq(current.waiting, 1, n - 1)]],
          notify |-> current.waiting[n]]

KeepEmptyEntry(ls, lockId, id) ==
    LET current == ls[lockId] IN
    IF ~current.present THEN [locks |-> ls, notify |-> 0]
    ELSE IF current.holderId # id
    THEN [locks |-> [ls EXCEPT ![lockId].waiting =
                        SelectSeq(current.waiting, LAMBDA h : h # id)],
          notify |-> 0]
    ELSE IF current.waiting = <<>>
    THEN [locks |-> [ls EXCEPT ![lockId].holderId = 0], notify |-> 0]
    ELSE [locks |-> [ls EXCEPT ![lockId] =
                        [present |-> TRUE,
                         holderId |-> Head(current.waiting),
                         waiting |-> Tail(current.waiting)]],
          notify |-> Head(current.waiting)]

TransferWithoutNotify(ls, lockId, id) ==
    LET current == ls[lockId] IN
    IF ~current.present THEN [locks |-> ls, notify |-> 0]
    ELSE IF current.holderId # id
    THEN [locks |-> [ls EXCEPT ![lockId].waiting =
                        SelectSeq(current.waiting, LAMBDA h : h # id)],
          notify |-> 0]
    ELSE IF current.waiting = <<>>
    THEN [locks |-> [ls EXCEPT ![lockId] = NoLock], notify |-> 0]
    ELSE [locks |-> [ls EXCEPT ![lockId] =
                        [present |-> TRUE,
                         holderId |-> Head(current.waiting),
                         waiting |-> Tail(current.waiting)]],
          notify |-> 0]

DropWaitersBehind(ls, lockId, id) ==
    LET current == ls[lockId] IN
    IF ~current.present THEN [locks |-> ls, notify |-> 0]
    ELSE IF current.holderId # id
    THEN [locks |-> [ls EXCEPT ![lockId].waiting =
                        SelectSeq(current.waiting, LAMBDA h : h < id)],
          notify |-> 0]
    ELSE IF current.waiting = <<>>
    THEN [locks |-> [ls EXCEPT ![lockId] = NoLock], notify |-> 0]
    ELSE [locks |-> [ls EXCEPT ![lockId] =
                        [present |-> TRUE,
                         holderId |-> Head(current.waiting),
                         waiting |-> Tail(current.waiting)]],
          notify |-> Head(current.waiting)]

ForgetWaiters(ls, lockId, id) ==
    LET current == ls[lockId] IN
    IF ~current.present THEN [locks |-> ls, notify |-> 0]
    ELSE IF current.holderId # id
    THEN [locks |-> [ls EXCEPT ![lockId].waiting =
                        SelectSeq(current.waiting, LAMBDA h : h # id)],
          notify |-> 0]
    ELSE [locks |-> [ls EXCEPT ![lockId] = NoLock], notify |-> 0]

LockTeardown(ls, lockId, id) ==
    LET current == ls[lockId] IN
    IF ~current.present THEN [locks |-> ls, notify |-> 0]
    ELSE IF current.holderId # id
    THEN \* We do not have the lock. Ensure we won't acquire it later.
         [locks |-> [ls EXCEPT ![lockId].waiting =
                        SelectSeq(current.waiting, LAMBDA h : h # id)],
          notify |-> 0]
    ELSE IF current.waiting = <<>>
    THEN \* We have the lock, but nobody else wants it. Delete it.
         [locks |-> [ls EXCEPT ![lockId] = NoLock], notify |-> 0]
    ELSE \* Transfer the lock to the next in line.
         [locks |-> [ls EXCEPT ![lockId] =
                        [present |-> TRUE,
                         holderId |-> Head(current.waiting),
                         waiting |-> Tail(current.waiting)]],
          notify |-> Head(current.waiting)]

\* notify() of the waiter id: replies LOCK_ACQUIRED and starts to listen for
\* LOCK_RELEASE on that reply.
LockNotify(ms, id) ==
    IF id = 0 THEN ms
    ELSE [ms EXCEPT ![id].replies = Append(@, "LOCK_ACQUIRED")]

\* release(): the function testWorker.teardown() returned.  It runs the
\* callback unless it ran before.  r is [locks, lmsgs].
LockRelease(ls, ms, id) ==
    IF ms[id].hook # "armed" THEN [locks |-> ls, lmsgs |-> ms]
    ELSE LET t == LockTeardown(ls[ms[id].ctx], ms[id].lockId, id) IN
         [locks |-> [ls EXCEPT ![ms[id].ctx] = t.locks],
          lmsgs |-> LockNotify([ms EXCEPT ![id].hook = "done"], t.notify)]

\* acquireLock(message, {contextId, lockId, wait}) up to its first await.
QueueWhenNotWaiting(ls, ms, c, contextId, lockId, wait) ==
    LET id == Len(ms) + 1
        m == [client |-> c, ctx |-> contextId, lockId |-> lockId,
              hook |-> "armed", replies |-> <<>>, queued |-> FALSE]
    IN
    IF ~ls[contextId][lockId].present
    THEN [locks |-> [ls EXCEPT ![contextId][lockId] =
                        [present |-> TRUE, holderId |-> id, waiting |-> <<>>]],
          lmsgs |-> Append(ms, [m EXCEPT !.replies = <<"LOCK_ACQUIRED">>])]
    ELSE [locks |-> [ls EXCEPT ![contextId][lockId].waiting = Append(@, id)],
          lmsgs |-> Append(ms, IF wait THEN [m EXCEPT !.queued = TRUE]
                               ELSE [m EXCEPT !.replies = <<"LOCK_FAILED">>])]

GrantHeldLock(ls, ms, c, contextId, lockId, wait) ==
    LET id == Len(ms) + 1
        m == [client |-> c, ctx |-> contextId, lockId |-> lockId,
              hook |-> "armed", replies |-> <<>>, queued |-> FALSE]
    IN
    IF ~ls[contextId][lockId].present \/ ~wait
    THEN [locks |-> [ls EXCEPT ![contextId][lockId] =
                        [present |-> TRUE, holderId |-> id,
                         waiting |-> ls[contextId][lockId].waiting]],
          lmsgs |-> Append(ms, [m EXCEPT !.replies = <<"LOCK_ACQUIRED">>])]
    ELSE [locks |-> [ls EXCEPT ![contextId][lockId].waiting = Append(@, id)],
          lmsgs |-> Append(ms, [m EXCEPT !.queued = TRUE])]

ReentrantAcquire(ls, ms, c, contextId, lockId, wait) ==
    LET id == Len(ms) + 1
        m == [client |-> c, ctx |-> contextId, lockId |-> lockId,
              hook |-> "armed", replies |-> <<>>, queued |-> FALSE]
        current == ls[contextId][lockId]
    IN
    IF ~current.present
    THEN [locks |-> [ls EXCEPT ![contextId][lockId] =
                        [present |-> TRUE, holderId |-> id, waiting |-> <<>>]],
          lmsgs |-> Append(ms, [m EXCEPT !.replies = <<"LOCK_ACQUIRED">>])]
    ELSE IF ms[current.holderId].client = c
    THEN [locks |-> ls,
          lmsgs |-> Append(ms, [m EXCEPT !.replies = <<"LOCK_ACQUIRED">>,
                                         !.hook = "done"])]
    ELSE IF ~wait
    THEN [locks |-> ls,
          lmsgs |-> Append(ms, [m EXCEPT !.replies = <<"LOCK_FAILED">>,
                                         !.hook = "done"])]
    ELSE [locks |-> [ls EXCEPT ![contextId][lockId].waiting = Append(@, id)],
          lmsgs |-> Append(ms, [m EXCEPT !.queued = TRUE])]

AcquireLock(ls, ms, c, contextId, lockId, wait) ==
    LET id == Len(ms) + 1
        m == [client |-> c, ctx |-> contextId, lockId |-> lockId,
              hook |-> "armed", replies |-> <<>>, queued |-> FALSE]
    IN
    IF ~ls[contextId][lockId].present
    THEN [locks |-> [ls EXCEPT ![contextId][lockId] =
                        [present |-> TRUE, holderId |-> id, waiting |-> <<>>]],
          lmsgs |-> Append(ms, [m EXCEPT !.replies = <<"LOCK_ACQUIRED">>])]
    ELSE IF ~wait
    THEN LET r == LockRelease(ls, Append(ms, m), id) IN
         [locks |-> r.locks,
          lmsgs |-> [r.lmsgs EXCEPT ![id].replies = Append(@, "LOCK_FAILED")]]
    ELSE [locks |-> [ls EXCEPT ![contextId][lockId].waiting = Append(@, id)],
          lmsgs |-> Append(ms, [m EXCEPT !.queued = TRUE])]

\* The reply loop of a message is running: LOCK_ACQUIRED was sent and the loop
\* has not called release() and left yet.
LockAcquired(m) == \E i \in 1..Len(m.replies) : m.replies[i] = "LOCK_ACQUIRED"

LockListening(m) == LockAcquired(m) /\ m.hook = "armed"

\* A LOCK message of a connected test worker arrives (Lock.acquire: wait,
\* Lock.acquireNow: ~wait).
RecvLock(c, contextId, lockId, wait) ==
    /\ ~TeardownPending
    /\ connected[c]
    /\ Len(lmsgs) < MaxLockMsgs
    /\ LET r == AcquireLock(locks, lmsgs, c, contextId, lockId, wait) IN
         /\ locks' = r.locks
         /\ lmsgs' = r.lmsgs
    /\ UNCHANGED <<connected, semVars, resVars, clientVars>>

\* The client calls the function acquire()/acquireNow() returned; the worker's
\* reply loop of message id receives LOCK_RELEASE, calls release() and breaks.
RecvLockRelease(id) ==
    /\ ~TeardownPending
    /\ id \in LockIdsOfMsgs
    /\ connected[lmsgs[id].client]
    /\ LockListening(lmsgs[id])
    /\ LET r == LockRelease(locks, lmsgs, id) IN
         /\ locks' = r.locks
         /\ lmsgs' = r.lmsgs
    /\ UNCHANGED <<connected, semVars, resVars, clientVars>>

\* A test worker exits.
Disconnect(c) ==
    /\ ~TeardownPending
    /\ connected[c]
    /\ connected' = [connected EXCEPT ![c] = FALSE]
    /\ UNCHANGED <<lockVars, semVars, resVars, clientVars>>

\* The host runs one teardown callback of an exited test worker.
RunLockTeardown(id) ==
    /\ id \in LockIdsOfMsgs
    /\ ~connected[lmsgs[id].client]
    /\ lmsgs[id].hook = "armed"
    /\ LET r == LockRelease(locks, lmsgs, id) IN
         /\ locks' = r.locks
         /\ lmsgs' = r.lmsgs
    /\ UNCHANGED <<connected, semVars, resVars, clientVars>>

\* -------------------------------------------------------------- semaphores

\* What context.semaphores.get(id) yields for an id the Map does not hold.
\* balance is the sum of the amounts that went through up() minus the sum of
\* the amounts of the requests that were granted, each request counted when it
\* is granted first.
NoSemaphore ==
    [present |-> FALSE, initialValue |-> 0, managed |-> FALSE,
     value |-> 0, queue |-> <<>>, balance |-> 0]

\* new Semaphore(initialValue, managed)
NewSemaphore(initialValue, managed) ==
    [present |-> TRUE, initialValue |-> initialValue, managed |-> managed,
     value |-> initialValue, queue |-> <<>>, balance |-> 0]

\* getSemaphore(contextId, id, initialValue, managed): [ok, semaphore], the
\* semaphore being S[contextId][id] of the table it returns.
GetSemaphoreReplacing(rev, S, contextId, id, initialValue, managed) ==
    IF /\ S[contextId][id].present
       /\ S[contextId][id].initialValue = initialValue
       /\ S[contextId][id].managed = managed
    THEN [ok |-> TRUE, sems |-> S]
    ELSE [ok |-> TRUE,
          sems |-> [S EXCEPT ![contextId][id] =
                       NewSemaphore(initialValue, managed)]]

GetSemaphoreUnchecked(rev, S, contextId, id, initialValue, managed) ==
    IF S[contextId][id].present
    THEN [ok |-> TRUE, sems |-> S]
    ELSE [ok |-> TRUE,
          sems |-> [S EXCEPT ![contextId][id] =
                       NewSemaphore(initialValue, managed)]]

GetSemaphore(rev, S, contextId, id, initialValue, managed) ==
    LET semaphore == S[contextId][id] IN
    IF semaphore.present
    THEN [ok |-> /\ semaphore.initialValue = initialValue
                 /\ (rev = "part_005" => semaphore.managed = managed),
          sems |-> S]
    ELSE [ok |-> TRUE,
          sems |-> [S EXCEPT ![contextId][id] =
                       NewSemaphore(initialValue, managed)]]

\* Semaphore.tryDown(amount) on a value: the test and the value it leaves.
TryDownBelow(value, amount) ==
    IF value > amount
    THEN [ok |-> TRUE, value |-> value - amount]
    ELSE [ok |-> FALSE, value |-> value]

TryDownUnchecked(value, amount) ==
    [ok |-> TRUE, value |-> value - amount]

TryDown(value, amount) ==
    IF value >= amount
    THEN [ok |-> TRUE, value |-> value - amount]
    ELSE [ok |-> FALSE, value |-> value]

\* The loop of Semaphore.up() in worker.ts:
\*   while (queue.length > 0 && tryDown(queue[0].amount)) queue.shift()?.resolve()
\* resolved lists the ids whose resolve() it called, in order.
RECURSIVE WhileLoop(_, _, _)
WhileLoop(value, queue, resolved) ==
    IF queue # <<>> /\ TryDown(value, Head(queue).amount).ok
    THEN WhileLoop(TryDown(value, Head(queue).amount).value, Tail(queue),
                   Append(resolved, Head(queue).id))
    ELSE [value |-> value, queue |-> queue, resolved |-> resolved]

\* The loop of Semaphore.up() in part_005:
\*   for (const item of queue) { if (!tryDown(item.amount)) break;
\*                               item.resolve(); queue.shift(); }
\* The array iterator reads queue[index] of the array as it is then, index
\* counting the iterations, while shift() removes the first element.
RECURSIVE ForOfLoop(_, _, _, _)
ForOfLoop(value, queue, index, resolved) ==
    IF index > Len(queue)
    THEN [value |-> value, queue |-> queue, resolved |-> resolved]
    ELSE LET item == queue[index] IN
         IF ~TryDown(value, item.amount).ok
         THEN [value |-> value, queue |-> queue, resolved |-> resolved]
         ELSE ForOfLoop(TryDown(value, item.amount).value, Tail(queue),
                        index + 1, Append(resolved, item.id))

SemSucceeded(m) ==
    \E i \in 1..Len(m.replies) : m.replies[i] = "SEMAPHORE_SUCCEEDED"

\* resolve() if every call of it let downSemaphore go on after its await.
RECURSIVE ResolveEveryCall(_, _)
ResolveEveryCall(ms, ids) ==
    IF ids = <<>> THEN ms
    ELSE ResolveEveryCall([ms EXCEPT
                        ![Head(ids)].acquired = ms[Head(ids)].amount,
                        ![Head(ids)].granted = TRUE,
                        ![Head(ids)].replies = Append(@, "SEMAPHORE_SUCCEEDED"),
                        ![Head(ids)].listening = ms[Head(ids)].managed],
                    Tail(ids))

\* resolve() of the queue item of message id: the callback of downSemaphore
\* (acquired = amount), then, the first time, downSemaphore goes on after
\* its await: it replies SEMAPHORE_SUCCEEDED and, if managed, starts to
\* listen for SEMAPHORE_RELEASE.
RECURSIVE Resolve(_, _)
Resolve(ms, ids) ==
    IF ids = <<>> THEN ms
    ELSE LET id == Head(ids)
             first == ~SemSucceeded(ms[id])
         IN Resolve([ms EXCEPT
                        ![id].acquired = ms[id].amount,
                        ![id].granted = TRUE,
                        ![id].replies = IF first
                                        THEN Append(@, "SEMAPHORE_SUCCEEDED")
                                        ELSE @,
                        ![id].listening = IF first THEN ms[id].managed ELSE @],
                    Tail(ids))

\* The amounts of the requests among ids that ms does not have as granted.
RECURSIVE FirstGrants(_, _)
FirstGrants(ms, ids) ==
    IF ids = <<>> THEN 0
    ELSE (IF ms[Head(ids)].granted THEN 0 ELSE ms[Head(ids)].amount)
         + FirstGrants([ms EXCEPT ![Head(ids)].granted = TRUE], Tail(ids))

\* An up() that only wakes the waiters its new value covers and leaves the
\* decrement to the woken waiter.
SemUpWakeOnly(rev, S, ms, contextId, id, amount) ==
    LET semaphore == S[contextId][id]
        r == WhileLoop(semaphore.value + amount, semaphore.queue, <<>>)
    IN [sems |-> [S EXCEPT ![contextId][id].value = semaphore.value + amount,
                           ![contextId][id].queue = r.queue,
                           ![contextId][id].balance =
                               @ + amount - FirstGrants(ms, r.resolved)],
        smsgs |-> Resolve(ms, r.resolved)]

\* semaphore.up(amount) on S[contextId][id], with the callbacks it runs.
SemUp(rev, S, ms, contextId, id, amount) ==
    LET semaphore == S[contextId][id]
        r == IF rev = "worker.ts"
             THEN WhileLoop(semaphore.value + amount, semaphore.queue, <<>>)
             ELSE ForOfLoop(semaphore.value + amount, semaphore.queue, 1, <<>>)
    IN [sems |-> [S EXCEPT ![contextId][id].value = r.value,
                           ![contextId][id].queue = r.queue,
                           ![contextId][id].balance =
                               @ + amount - FirstGrants(ms, r.resolved)],
        smsgs |-> Resolve(ms, r.resolved)]

\* The teardown callback that downSemaphore registered for message id.
\*   wait:   (clearQueue = true) => { if (acquired > 0 && managed) up(acquired);
\*                                    if (clearQueue) queue = queue.filter(...) }
\*   ~wait:  () => up(acquired)        (worker.ts: () => up(amount))
SemTeardown(rev, S, ms, id, clearQueue) ==
    LET m == ms[id]
        u == IF m.wait /\ ~(m.acquired > 0 /\ m.managed)
             THEN [sems |-> S, smsgs |-> ms]
             ELSE SemUp(rev, S, ms, m.ctx, m.sem, m.acquired)
    IN IF m.wait /\ clearQueue
       THEN [sems |-> [u.sems EXCEPT ![m.ctx][m.sem].queue =
                          SelectSeq(@, LAMBDA item : item.id # id)],
             smsgs |-> u.smsgs]
       ELSE u

\* release(clearQueue): the function testWorker.teardown() returned.  It runs
\* the callback unless it ran before.
SemRelease(rev, S, ms, id, clearQueue) ==
    IF ms[id].hook # "armed" THEN [sems |-> S, smsgs |-> ms]
    ELSE SemTeardown(rev, S, [ms EXCEPT ![id].hook = "done"], id, clearQueue)

\* The test of Semaphore.down(amount, ...), t being what tryDown(amount)
\* gives: this.queue.length > 0 || !this.tryDown(amount)
MustQueueWhenShort(queue, t) == ~t.ok

MustQueue(queue, t) == Len(queue) > 0 \/ ~t.ok

\* What a SEMAPHORE_CREATION_FAILED reply carries: the initialValue and
\* managed of the semaphore that exists (NoParameters: no such reply).
NoParameters == [initialValue |-> 0, managed |-> FALSE, sent |-> FALSE]

CreationFailed(m, semaphore) ==
    [m EXCEPT !.replies = <<"SEMAPHORE_CREATION_FAILED">>,
              !.inEffect = [initialValue |-> semaphore.initialValue,
                            managed |-> semaphore.managed,
                            sent |-> TRUE]]

\* The record of a message that downSemaphore / upSemaphore answers at once.
\* kept: the test still holds the release handle it called; thrown: its last
\* call threw a RangeError.
SemMsg(kind, c, contextId, id, amount, wait, managed) ==
    [kind |-> kind, client |-> c, ctx |-> contextId, sem |-> id,
     amount |-> amount, wait |-> wait, managed |-> managed,
     acquired |-> 0, granted |-> FALSE, hook |-> "none", replies |-> <<>>,
     listening |-> FALSE, remaining |-> 0, inEffect |-> NoParameters,
     kept |-> FALSE, thrown |-> FALSE]

\* downSemaphore(message, {contextId, semaphore: {managed, id, initialValue},
\* amount, wait}) up to the point where it waits for a message.
\* remaining is the amount of the client's release handle (index.ts).
DownSemaphore(rev, S, ms, c, contextId, id, initialValue, managed, amount, wait) ==
    LET g == GetSemaphore(rev, S, contextId, id, initialValue, managed)
        m == SemMsg("down", c, contextId, id, amount, wait, managed)
        semaphore == g.sems[contextId][id]
        t == TryDown(semaphore.value, amount)
        got == [m EXCEPT !.acquired = amount,
                         !.granted = TRUE,
                         !.replies = <<"SEMAPHORE_SUCCEEDED">>,
                         !.listening = managed,
                         !.remaining = IF managed THEN amount ELSE 0]
    IN
    IF ~g.ok
    THEN [sems |-> g.sems,
          smsgs |-> Append(ms, CreationFailed(m, g.sems[contextId][id]))]
    ELSE IF wait
    THEN IF MustQueue(semaphore.queue, t)
         THEN [sems |-> [g.sems EXCEPT ![contextId][id].queue =
                           Append(@, [id |-> Len(ms) + 1, amount |-> amount])],
               smsgs |-> Append(ms, [m EXCEPT
                           !.hook = "armed",
                           !.remaining = IF managed THEN amount ELSE 0])]
         ELSE [sems |-> [g.sems EXCEPT ![contextId][id].value = t.value,
                                       ![contextId][id].balance = @ - amount],
               smsgs |-> Append(ms, [got EXCEPT !.hook = "armed"])]
    ELSE IF t.ok
    THEN [sems |-> [g.sems EXCEPT ![contextId][id].value = t.value,
                                  ![contextId][id].balance = @ - amount],
          smsgs |-> Append(ms, [got EXCEPT !.hook =
                       IF rev = "worker.ts" /\ ~managed
                       THEN "none" ELSE "armed"])]
    ELSE [sems |-> g.sems,
          smsgs |-> Append(ms, [m EXCEPT !.replies = <<"SEMAPHORE_FAILED">>])]

\* upSemaphore(message, {contextId, semaphore: {managed, id, initialValue},
\* amount})
UpSemaphore(rev, S, ms, c, contextId, id, initialValue, managed, amount) ==
    LET g == GetSemaphore(rev, S, contextId, id, initialValue, managed)
        m == SemMsg("up", c, contextId, id, amount, FALSE, managed)
    IN
    IF ~g.ok
    THEN [sems |-> g.sems,
          smsgs |-> Append(ms, CreationFailed(m, g.sems[contextId][id]))]
    ELSE SemUp(rev, g.sems,
               Append(ms, [m EXCEPT !.replies = <<"SEMAPHORE_SUCCEEDED">>]),
               contextId, id, amount)

Min(a, b) == IF a <= b THEN a ELSE b

Max(a, b) == IF a >= b THEN a ELSE b

\* One iteration of the reply loop of downSemaphore for message id: a
\* SEMAPHORE_RELEASE with data.amount = amount arrives.  clearQueue is what
\* the teardown callback gets when the loop calls release(false).
SemReleaseMessage(rev, S, ms, id, amount, clearQueue) ==
    LET m == ms[id] IN
    IF rev = "part_005"
    THEN LET releaseAmount == Min(m.acquired, amount)
             u == SemUp(rev, S, ms, m.ctx, m.sem, releaseAmount)
             acquired == u.smsgs[id].acquired - releaseAmount
             ms1 == [u.smsgs EXCEPT ![id].acquired = acquired]
         IN IF acquired <= 0
            THEN SemRelease(rev, u.sems, [ms1 EXCEPT ![id].listening = FALSE],
                            id, clearQueue)
            ELSE [sems |-> u.sems, smsgs |-> ms1]
    ELSE IF m.wait
    THEN LET u == IF m.acquired > 0
                  THEN SemUp(rev, S, ms, m.ctx, m.sem, Min(m.acquired, amount))
                  ELSE [sems |-> S, smsgs |-> ms]
             acquired == IF m.acquired > 0
                         THEN u.smsgs[id].acquired - amount
                         ELSE m.acquired
             ms1 == [u.smsgs EXCEPT ![id].acquired = acquired]
         IN IF acquired <= 0
            THEN SemRelease(rev, u.sems, [ms1 EXCEPT ![id].listening = FALSE],
                            id, clearQueue)
            ELSE [sems |-> u.sems, smsgs |-> ms1]
    ELSE LET u == SemUp(rev, S, ms, m.ctx, m.sem, Min(m.acquired, amount))
             left == Max(0, m.acquired - amount)
             ms1 == [u.smsgs EXCEPT ![id].acquired = left,
                                    ![id].listening = FALSE]
         IN IF left = 0
            THEN SemRelease(rev, u.sems, ms1, id, TRUE)
            ELSE [sems |-> u.sems, smsgs |-> ms1]

\* What is left of the messages whose closures nothing refers to any more:
\* no queue item, no teardown callback that has yet to run, no reply loop, and
\* no release handle of a connected client that still holds an amount or that
\* the test keeps.  Only the replies they got are kept.
OnlyHandle(S, ms, id) ==
    /\ ms[id].hook # "armed"
    /\ ~ms[id].listening
    /\ \A i \in 1..Len(S[ms[id].ctx][ms[id].sem].queue) :
          S[ms[id].ctx][ms[id].sem].queue[i].id # id

Unreferenced(S, ms, conn, id) ==
    /\ OnlyHandle(S, ms, id)
    /\ (ms[id].remaining = 0 /\ ~ms[id].kept) \/ ~conn[ms[id].client]

\* Of a message that only its kept release handle refers to, the handle's
\* own state is left.
Collect(S, ms, conn) ==
    [id \in 1..Len(ms) |->
        IF ms[id].kind # "gone" /\ Unreferenced(S, ms, conn, id)
        THEN [SemMsg("gone", "", ms[id].ctx, ms[id].sem, 0, FALSE, FALSE)
                 EXCEPT !.replies = ms[id].replies,
                        !.inEffect = ms[id].inEffect]
        ELSE IF ms[id].kind = "down" /\ ms[id].kept /\ OnlyHandle(S, ms, id)
        THEN [ms[id] EXCEPT !.amount = 0, !.wait = FALSE, !.acquired = 0,
                            !.hook = "none"]
        ELSE ms[id]]

\* A SEMAPHORE_DOWN message of a connected test worker arrives (acquire and
\* down: wait; acquireNow and downNow: ~wait; ManagedSemaphore: managed).
RecvSemaphoreDown(c, contextId, id, initialValue, managed, amount, wait) ==
    /\ ~TeardownPending
    /\ connected[c]
    /\ Len(smsgs) < MaxSemMsgs
    /\ LET r == DownSemaphore(revision, sems, smsgs, c, contextId, id,
                              initialValue, managed, amount, wait) IN
         /\ sems' = r.sems
         /\ smsgs' = Collect(r.sems, r.smsgs, connected)
    /\ UNCHANGED <<connected, lockVars, revision, resVars, clientVars>>

\* A SEMAPHORE_UP message arrives (UnmanagedSemaphore.up).
RecvSemaphoreUp(c, contextId, id, initialValue, amount) ==
    /\ ~TeardownPending
    /\ connected[c]
    /\ Len(smsgs) < MaxSemMsgs
    /\ LET r == UpSemaphore(revision, sems, smsgs, c, contextId, id,
                            initialValue, FALSE, amount) IN
         /\ sems' = r.sems
         /\ smsgs' = Collect(r.sems, r.smsgs, connected)
    /\ UNCHANGED <<connected, lockVars, revision, resVars, clientVars>>

\* The release handle of acquire() / acquireNow() without its range test.
ReleaseHandleUnchecked(amount, release) ==
    IF release < 0
    THEN [thrown |-> TRUE, amount |-> amount, sent |-> FALSE]
    ELSE [thrown |-> FALSE, amount |-> amount - release, sent |-> TRUE]

\* The release handle that acquire() / acquireNow() return, called with an
\* integer: it throws a RangeError before it changes its amount or sends
\* SEMAPHORE_RELEASE.
ReleaseHandle(amount, release) ==
    IF release < 0 \/ release > amount
    THEN [thrown |-> TRUE, amount |-> amount, sent |-> FALSE]
    ELSE [thrown |-> FALSE, amount |-> amount - release, sent |-> TRUE]

\* The client calls the release handle that acquire()/acquireNow() returned
\* with an amount it accepts (0 <= release <= the handle's amount), and the
\* SEMAPHORE_RELEASE reaches the reply loop of message id, if that still
\* runs.  release(false) may reach the callback as clearQueue = false or,
\* when the host's wrapper drops the argument, as the default true.
RecvSemaphoreRelease(id, release) ==
    /\ ~TeardownPending
    /\ id \in 1..Len(smsgs)
    /\ smsgs[id].kind = "down"
    /\ connected[smsgs[id].client]
    /\ smsgs[id].managed
    /\ SemSucceeded(smsgs[id])
    /\ ~ReleaseHandle(smsgs[id].remaining, release).thrown
    /\ \E clearQueue \in BOOLEAN :
         LET ms == [smsgs EXCEPT
                      ![id].remaining = ReleaseHandle(@, release).amount]
             r == IF smsgs[id].listening
                  THEN SemReleaseMessage(revision, sems, ms, id, release,
                                         clearQueue)
                  ELSE [sems |-> sems, smsgs |-> ms]
         IN /\ sems' = r.sems
            /\ smsgs' = Collect(r.sems, r.smsgs, connected)
    /\ UNCHANGED <<connected, lockVars, revision, resVars, clientVars>>

\* A test that keeps its release handle calls it with any amount, also one
\* the handle rejects and also after the handle was emptied.
CallRelease(id, release) ==
    /\ ~TeardownPending
    /\ id \in 1..Len(smsgs)
    /\ smsgs[id].kind = "down"
    /\ connected[smsgs[id].client]
    /\ smsgs[id].managed
    /\ SemSucceeded(smsgs[id])
    /\ \E clearQueue \in BOOLEAN :
         LET h == ReleaseHandle(smsgs[id].remaining, release)
             ms == [smsgs EXCEPT ![id].remaining = h.amount,
                                 ![id].kept = TRUE,
                                 ![id].thrown = h.thrown]
             r == IF h.sent /\ smsgs[id].listening
                  THEN SemReleaseMessage(revision, sems, ms, id, release,
                                         clearQueue)
                  ELSE [sems |-> sems, smsgs |-> ms]
         IN /\ sems' = r.sems
            /\ smsgs' = Collect(r.sems, r.smsgs, connected)
    /\ UNCHANGED <<connected, lockVars, revision, resVars, clientVars>>

\* The host runs one teardown callback of an exited test worker.
RunSemaphoreTeardown(id) ==
    /\ id \in 1..Len(smsgs)
    /\ smsgs[id].hook = "armed"
    /\ ~connected[smsgs[id].client]
    /\ LET r == SemRelease(revision, sems, smsgs, id, TRUE) IN
         /\ sems' = r.sems
         /\ smsgs' = Collect(r.sems, r.smsgs, connected)
    /\ UNCHANGED <<connected, lockVars, revision, resVars, clientVars>>

\* ------------------------------------------------------------ reservations

\* context.reservedValues of the context with this id (getContext), here
\* the id of every other context standing for one shared context.
GetContextShared(id) == CHOOSE x \in AllContexts : TRUE

\* getContext(id): the context that sharedContexts keeps under id, as the key
\* of the tables of the model.
GetContext(id) == id

\* reserve() that adds every value and returns every index.
RECURSIVE ReserveFromUnchecked(_, _, _, _)
ReserveFromUnchecked(set, values, index, indexes) ==
    IF index > Len(values)
    THEN [reservedValues |-> set, indexes |-> indexes]
    ELSE ReserveFromUnchecked(set \cup {values[index]}, values, index + 1,
                              Append(indexes, index - 1))

\* reserve() that tests every value against the set as it was before the
\* call.
ReserveFromStale(set, values, index, indexes) ==
    [reservedValues |-> set \cup {values[p] : p \in index..Len(values)},
     indexes |-> indexes \o
                 SelectSeq([p \in 1..Len(values) |-> p - 1],
                           LAMBDA i : i + 1 >= index /\ values[i + 1] \notin set)]

\* values.map((value, index) => has(value) ? -1 : (add(value), index))
\*       .filter(index => index >= 0)
\* from position index on (values[index] here is values[index - 1] there):
\* the set it leaves and the indexes, counted from 0, it returns.
RECURSIVE ReserveFrom(_, _, _, _)
ReserveFrom(set, values, index, indexes) ==
    IF index > Len(values)
    THEN [reservedValues |-> set, indexes |-> indexes]
    ELSE IF values[index] \in set
    THEN ReserveFrom(set, values, index + 1, indexes)
    ELSE ReserveFrom(set \cup {values[index]}, values, index + 1,
                     Append(indexes, index - 1))

\* A teardown callback that deletes every value of the call.
DeletedAll(values, indexes) == {values[p] : p \in 1..Len(values)}

\* The values that the teardown callback of a reserve call deletes:
\* for (const index of indexes) reservedValues.delete(values[index])
Deleted(values, indexes) ==
    {values[indexes[i] + 1] : i \in 1..Len(indexes)}

\* What SharedContext.reserve(...values) returns for the reply indexes:
\* data.indexes.map(index => values[index])
Returned(values, indexes) ==
    [i \in 1..Len(indexes) |-> values[indexes[i] + 1]]

\* A RESERVE message of a connected test worker arrives: reserve(message,
\* {contextId, values}).
RecvReserve(c, contextId, values) ==
    /\ ~TeardownPending
    /\ connected[c]
    /\ Len(rmsgs) < MaxReserveMsgs
    /\ LET x == GetContext(contextId)
           r == ReserveFrom(reserved[x], values, 1, <<>>)
       IN /\ reserved' = [reserved EXCEPT ![x] = r.reservedValues]
          /\ rmsgs' = Append(rmsgs, [client |-> c, ctx |-> contextId,
                                      values |-> values, indexes |-> r.indexes,
                                      hook |-> "armed",
                                      replies |-> <<r.indexes>>])
    /\ UNCHANGED <<connected, lockVars, semVars, clientVars>>

\* The host runs the teardown callback of a reserve call of an exited test
\* worker.
RunReserveTeardown(id) ==
    /\ id \in 1..Len(rmsgs)
    /\ rmsgs[id].hook = "armed"
    /\ ~connected[rmsgs[id].client]
    /\ LET x == GetContext(rmsgs[id].ctx) IN
         reserved' = [reserved EXCEPT ![x] =
                         @ \ Deleted(rmsgs[id].values, rmsgs[id].indexes)]
    /\ rmsgs' = [rmsgs EXCEPT ![id].hook = "done"]
    /\ UNCHANGED <<connected, lockVars, semVars, clientVars>>

\* ------------------------------------------------------------ client calls

\* The numbers a test passes to index.ts, in halves: h stands for h / 2.
ClientNumbers == {-2, 0, 1, 2, 4}

\* Number.isSafeInteger(h / 2), for the magnitudes of ClientNumbers.
IsSafeInteger(h) == h % 2 = 0

\* The test of the constructors and of acquire, acquireNow, down, downNow
\* and up without its comparison with 0.
ArgumentThrowsNonIntegral(h) == ~IsSafeInteger(h)

\* The test of the constructors (initialValue) and of acquire, acquireNow,
\* down, downNow and up (amount):
\*   if (amount < 0 || !Number.isSafeInteger(amount)) throw new RangeError(...)
ArgumentThrows(h) == h < 0 \/ ~IsSafeInteger(h)

\* The test of the release handle that acquire() returns; amount is what the
\* handle still holds.
AcquireReleaseThrows(amount, release) ==
    release < 0 \/ ~IsSafeInteger(release) \/ release > amount

\* The test of the release handle that acquireNow() returns.
AcquireNowReleaseThrows(amount, release) ==
    release < 0 \/ release > amount

NoCall == [bit |-> 0, op |-> "none", id |-> 0, arg |-> 0, thrown |-> FALSE]

\* The record of the call made in this step; bit tells it from the call
\* before it.
CalledOn(id, op, h, thrown) ==
    [bit |-> 1 - call.bit, op |-> op, id |-> id, arg |-> h,
     thrown |-> thrown]

Called(op, h, thrown) == CalledOn(0, op, h, thrown)

\* A SEMAPHORE_RELEASE with a non-integral amount was sent.  What the worker
\* computes from it is not modelled: no step follows.
NonIntegralSent == ~call.thrown /\ ~IsSafeInteger(call.arg)

\* new ManagedSemaphore(context, id, h / 2) or new UnmanagedSemaphore(...),
\* as createSemaphore does: it sends nothing.
ClientCreate(h) ==
    /\ ~NonIntegralSent
    /\ call' = Called("create", h, ArgumentThrows(h))
    /\ UNCHANGED <<connected, lockVars, semVars, resVars>>

\* acquire, acquireNow, down or downNow with amount h / 2 on a handle made
\* with initialValue; SEMAPHORE_DOWN is published unless the call throws.
ClientDown(c, contextId, id, initialValue, managed, h, wait) ==
    /\ ~NonIntegralSent
    /\ ~TeardownPending
    /\ connected[c]
    /\ Len(smsgs) < MaxCallMsgs
    /\ call' = Called(IF managed THEN (IF wait THEN "acquire" ELSE "acquireNow")
                      ELSE (IF wait THEN "down" ELSE "downNow"),
                      h, ArgumentThrows(h))
    /\ IF ArgumentThrows(h)
       THEN UNCHANGED <<sems, smsgs>>
       ELSE LET r == DownSemaphore(revision, sems, smsgs, c, contextId, id,
                                   initialValue, managed, h \div 2, wait) IN
            /\ sems' = r.sems
            /\ smsgs' = Collect(r.sems, r.smsgs, connected)
    /\ UNCHANGED <<connected, lockVars, revision, resVars>>

\* UnmanagedSemaphore.up(h / 2).
ClientUp(c, contextId, id, initialValue, h) ==
    /\ ~NonIntegralSent
    /\ ~TeardownPending
    /\ connected[c]
    /\ Len(smsgs) < MaxCallMsgs
    /\ call' = Called("up", h, ArgumentThrows(h))
    /\ IF ArgumentThrows(h)
       THEN UNCHANGED <<sems, smsgs>>
       ELSE LET r == UpSemaphore(revision, sems, smsgs, c, contextId, id,
                                 initialValue, FALSE, h \div 2) IN
            /\ sems' = r.sems
            /\ smsgs' = Collect(r.sems, r.smsgs, connected)
    /\ UNCHANGED <<connected, lockVars, revision, resVars>>

\* The test calls the release handle of message id with h / 2: the handle
\* that acquire() returned (wait) or the one that acquireNow() returned.
ClientRelease(id, h) ==
    /\ ~NonIntegralSent
    /\ ~TeardownPending
    /\ id \in 1..Len(smsgs)
    /\ smsgs[id].kind = "down"
    /\ connected[smsgs[id].client]
    /\ smsgs[id].managed
    /\ SemSucceeded(smsgs[id])
    /\ LET thrown == IF smsgs[id].wait
                     THEN AcquireReleaseThrows(2 * smsgs[id].remaining, h)
                     ELSE AcquireNowReleaseThrows(2 * smsgs[id].remaining, h)
       IN
       /\ call' = CalledOn(id, IF smsgs[id].wait THEN "release of acquire"
                               ELSE "release of acquireNow", h, thrown)
       /\ IF thrown \/ ~IsSafeInteger(h)
          THEN UNCHANGED <<sems, smsgs>>
          ELSE \E clearQueue \in BOOLEAN :
                 LET ms == [smsgs EXCEPT ![id].remaining = @ - (h \div 2)]
                     r == IF smsgs[id].listening
                          THEN SemReleaseMessage(revision, sems, ms, id,
                                                 h \div 2, clearQueue)
                          ELSE [sems |-> sems, smsgs |-> ms]
                 IN /\ sems' = r.sems
                    /\ smsgs' = Collect(r.sems, r.smsgs, connected)
    /\ UNCHANGED <<connected, lockVars, revision, resVars>>

\* A test worker sends SEMAPHORE_RELEASE with any amount on the reply of
\* message id, which got SEMAPHORE_SUCCEEDED, without the tests of the
\* release handle; the reply loop of the message receives it if it still
\* runs.
SendRelease(id, amount) ==
    /\ ~TeardownPending
    /\ id \in 1..Len(smsgs)
    /\ SemSucceeded(smsgs[id])
    /\ smsgs[id].kind = "down" => connected[smsgs[id].client]
    /\ call' = CalledOn(id, "SEMAPHORE_RELEASE", 2 * amount, FALSE)
    /\ \E clearQueue \in BOOLEAN :
         LET ms == [smsgs EXCEPT ![id].remaining = Max(0, @ - amount)]
             r == IF smsgs[id].kind = "down" /\ smsgs[id].managed
                     /\ smsgs[id].listening
                  THEN SemReleaseMessage(revision, sems, ms, id, amount,
                                         clearQueue)
                  ELSE [sems |-> sems, smsgs |-> ms]
         IN /\ sems' = r.sems
            /\ smsgs' = Collect(r.sems, r.smsgs, connected)
    /\ UNCHANGED <<connected, lockVars, revision, resVars>>

InitCommon ==
    /\ connected = [c \in Clients |-> TRUE]
    /\ call = NoCall
    /\ locks = [x \in AllContexts |-> [l \in LockIds |-> NoLock]]
    /\ lmsgs = <<>>
    /\ sems = [x \in AllContexts |-> [s \in SemIds |-> NoSemaphore]]
    /\ smsgs = <<>>
    /\ reserved = [x \in AllContexts |-> {}]
    /\ rmsgs = <<>>

Init == InitCommon /\ revision \in Revisions

\* The lock code is the same in both revisions.
InitLock == InitCommon /\ revision = "part_005"

\* A test file that makes its handle for semaphore id the way the semaphore
\* was made: createSemaphore(id, initialValue) or createSemaphore.unmanaged.
SameHandle(contextId, id, initialValue, managed) ==
    sems[contextId][id].present =>
        /\ sems[contextId][id].initialValue = initialValue
        /\ sems[contextId][id].managed = managed

\* Test workers are interchangeable: the one whose message the worker
\* receives first is called FirstClient.
FirstClient == CHOOSE c \in Clients : TRUE

FirstMessageFrom(c) == smsgs = <<>> => c = FirstClient

NextSem ==
    \/ \E c \in Clients, x \in Contexts, s \in SemIds, v \in InitialValues,
          m \in BOOLEAN, n \in Amounts, w \in BOOLEAN :
          /\ FirstMessageFrom(c)
          /\ SameHandle(x, s, v, m)
          /\ RecvSemaphoreDown(c, x, s, v, m, n, w)
    \/ \E c \in Clients, x \in Contexts, s \in SemIds, v \in InitialValues,
          n \in Amounts :
          /\ FirstMessageFrom(c)
          /\ SameHandle(x, s, v, FALSE)
          /\ RecvSemaphoreUp(c, x, s, v, n)
    \/ \E id \in 1..MaxSemMsgs, n \in ReleaseAmounts :
          RecvSemaphoreRelease(id, n)
    \/ \E c \in Clients : Disconnect(c)
    \/ \E id \in 1..MaxSemMsgs : RunSemaphoreTeardown(id)

SpecSem == Init /\ [][NextSem]_vars

\* The same clients when they also pass amount 0, for fewer messages.
NextSemZero ==
    \/ \E c \in Clients, x \in Contexts, s \in SemIds, v \in InitialValues,
          m \in BOOLEAN, n \in AmountsFromZero, w \in BOOLEAN :
          /\ Len(smsgs) < MaxZeroMsgs
          /\ FirstMessageFrom(c)
          /\ SameHandle(x, s, v, m)
          /\ RecvSemaphoreDown(c, x, s, v, m, n, w)
    \/ \E c \in Clients, x \in Contexts, s \in SemIds, v \in InitialValues,
          n \in AmountsFromZero :
          /\ Len(smsgs) < MaxZeroMsgs
          /\ FirstMessageFrom(c)
          /\ SameHandle(x, s, v, FALSE)
          /\ RecvSemaphoreUp(c, x, s, v, n)
    \/ \E id \in 1..MaxZeroMsgs, n \in ReleaseAmounts :
          RecvSemaphoreRelease(id, n)
    \/ \E c \in Clients : Disconnect(c)
    \/ \E id \in 1..MaxZeroMsgs : RunSemaphoreTeardown(id)

SpecSemZero == Init /\ [][NextSemZero]_vars

\* Clients whose handles for one id may differ in initialValue and flavor.
NextSemHandles ==
    \/ \E c \in Clients, x \in Contexts, s \in SemIds, v \in InitialValues,
          m \in BOOLEAN, n \in Amounts, w \in BOOLEAN :
          /\ Len(smsgs) < MaxHandleMsgs
          /\ FirstMessageFrom(c)
          /\ RecvSemaphoreDown(c, x, s, v, m, n, w)
    \/ \E c \in Clients, x \in Contexts, s \in SemIds, v \in InitialValues,
          n \in Amounts :
          /\ Len(smsgs) < MaxHandleMsgs
          /\ FirstMessageFrom(c)
          /\ RecvSemaphoreUp(c, x, s, v, n)
    \/ \E id \in 1..MaxHandleMsgs, n \in ReleaseAmounts :
          RecvSemaphoreRelease(id, n)
    \/ \E c \in Clients : Disconnect(c)
    \/ \E id \in 1..MaxHandleMsgs : RunSemaphoreTeardown(id)

SpecSemHandles == Init /\ [][NextSemHandles]_vars

\* The clients of SpecSem with fewer messages.  The host runs every
\* teardown callback of a test worker that exited; no client has to send
\* anything.
NextSemLive ==
    \/ \E c \in Clients, x \in Contexts, s \in SemIds, v \in InitialValues,
          m \in BOOLEAN, n \in Amounts, w \in BOOLEAN :
          /\ Len(smsgs) < MaxLiveMsgs
          /\ FirstMessageFrom(c)
          /\ SameHandle(x, s, v, m)
          /\ RecvSemaphoreDown(c, x, s, v, m, n, w)
    \/ \E c \in Clients, x \in Contexts, s \in SemIds, v \in InitialValues,
          n \in Amounts :
          /\ Len(smsgs) < MaxLiveMsgs
          /\ FirstMessageFrom(c)
          /\ SameHandle(x, s, v, FALSE)
          /\ RecvSemaphoreUp(c, x, s, v, n)
    \/ \E id \in 1..MaxLiveMsgs, n \in ReleaseAmounts :
          RecvSemaphoreRelease(id, n)
    \/ \E c \in Clients : Disconnect(c)
    \/ \E id \in 1..MaxLiveMsgs : RunSemaphoreTeardown(id)

SpecSemLive ==
    /\ Init
    /\ [][NextSemLive]_vars
    /\ \A id \in 1..MaxLiveMsgs : WF_vars(RunSemaphoreTeardown(id))

\* Tests that pass any number of ClientNumbers to index.ts.
NextClient ==
    \/ \E h \in ClientNumbers : ClientCreate(h)
    \/ \E c \in Clients, x \in Contexts, s \in SemIds, v \in InitialValues,
          m \in BOOLEAN, h \in ClientNumbers, w \in BOOLEAN :
          /\ FirstMessageFrom(c)
          /\ SameHandle(x, s, v, m)
          /\ ClientDown(c, x, s, v, m, h, w)
    \/ \E c \in Clients, x \in Contexts, s \in SemIds, v \in InitialValues,
          h \in ClientNumbers :
          /\ FirstMessageFrom(c)
          /\ SameHandle(x, s, v, FALSE)
          /\ ClientUp(c, x, s, v, h)
    \/ \E id \in 1..MaxCallMsgs, h \in ClientNumbers : ClientRelease(id, h)
    \/ \E c \in Clients : ~NonIntegralSent /\ Disconnect(c)
    \/ \E id \in 1..MaxCallMsgs : ~NonIntegralSent /\ RunSemaphoreTeardown(id)

SpecClient == Init /\ [][NextClient]_vars

\* Test workers of a managed semaphore that send their SEMAPHORE_RELEASE
\* messages themselves, with any amount and at any time.
NextSemRelease ==
    \/ \E c \in Clients, x \in Contexts, s \in SemIds, v \in InitialValues,
          n \in Amounts, w \in BOOLEAN :
          /\ Len(smsgs) < MaxReleaseMsgs
          /\ FirstMessageFrom(c)
          /\ SameHandle(x, s, v, TRUE)
          /\ RecvSemaphoreDown(c, x, s, v, TRUE, n, w)
    \/ \E id \in 1..MaxReleaseMsgs, n \in 0..3 : SendRelease(id, n)
    \/ \E c \in Clients : Disconnect(c)
    \/ \E id \in 1..MaxReleaseMsgs : RunSemaphoreTeardown(id)

SpecSemRelease == Init /\ [][NextSemRelease]_vars

\* No other release handle than that of message id is kept.
OnlyKept(id) == \A o \in 1..Len(smsgs) : smsgs[o].kept => o = id

\* Tests of a managed semaphore that keep one of the release handles they got.
NextSemClient ==
    \/ \E c \in Clients, x \in Contexts, s \in SemIds, v \in InitialValues,
          n \in Amounts, w \in BOOLEAN :
          /\ Len(smsgs) < MaxClientMsgs
          /\ FirstMessageFrom(c)
          /\ SameHandle(x, s, v, TRUE)
          /\ RecvSemaphoreDown(c, x, s, v, TRUE, n, w)
    \/ \E id \in 1..MaxClientMsgs, n \in ReleaseAmounts :
          OnlyKept(0) /\ RecvSemaphoreRelease(id, n)
    \/ \E id \in 1..MaxClientMsgs, n \in ReleaseAmounts :
          OnlyKept(id) /\ CallRelease(id, n)
    \/ \E c \in Clients : Disconnect(c)
    \/ \E id \in 1..MaxClientMsgs : RunSemaphoreTeardown(id)

SpecSemClient == Init /\ [][NextSemClient]_vars

\* The reserve calls of the test files of one context.
NextReserve ==
    \/ \E c \in Clients, x \in Contexts, values \in ValueLists :
          /\ rmsgs = <<>> => c = FirstClient
          /\ RecvReserve(c, x, values)
    \/ \E c \in Clients : Disconnect(c)
    \/ \E id \in 1..MaxReserveMsgs : RunReserveTeardown(id)

SpecReserve == InitLock /\ [][NextReserve]_vars

\* The messages received so far.
Received == Len(lmsgs) + Len(smsgs) + Len(rmsgs)

\* Test files of two contexts that use the same lock id, the same managed
\* semaphore and the same values.
NextContexts ==
    \/ \E c \in Clients, x \in AllContexts :
          /\ Received < MaxContextMsgs
          /\ Received = 0 => c = FirstClient
          /\ RecvLock(c, x, "l1", TRUE)
    \/ \E id \in 1..MaxContextMsgs : RecvLockRelease(id)
    \/ \E c \in Clients, x \in AllContexts, s \in SemIds, n \in Amounts,
          w \in BOOLEAN :
          /\ Received < MaxContextMsgs
          /\ Received = 0 => c = FirstClient
          /\ RecvSemaphoreDown(c, x, s, 2, TRUE, n, w)
    \/ \E id \in 1..MaxContextMsgs, n \in ReleaseAmounts :
          RecvSemaphoreRelease(id, n)
    \/ \E c \in Clients, x \in AllContexts, v \in Values :
          /\ Received < MaxContextMsgs
          /\ Received = 0 => c = FirstClient
          /\ RecvReserve(c, x, <<v>>)
    \/ \E c \in Clients : Disconnect(c)
    \/ \E id \in 1..MaxContextMsgs : RunLockTeardown(id)
    \/ \E id \in 1..MaxContextMsgs : RunSemaphoreTeardown(id)
    \/ \E id \in 1..MaxContextMsgs : RunReserveTeardown(id)

SpecContexts == Init /\ [][NextContexts]_vars

\* Test files of one context that send every kind of request: locks,
\* semaphores through handles that need not agree, and reservations.
NextReplies ==
    \/ \E c \in Clients, x \in Contexts, w \in BOOLEAN :
          /\ Received < MaxReplyMsgs
          /\ Received = 0 => c = FirstClient
          /\ RecvLock(c, x, "l1", w)
    \/ \E id \in 1..MaxReplyMsgs : RecvLockRelease(id)
    \/ \E c \in Clients, x \in Contexts, s \in SemIds, v \in InitialValues,
          m \in BOOLEAN, n \in Amounts, w \in BOOLEAN :
          /\ Received < MaxReplyMsgs
          /\ Received = 0 => c = FirstClient
          /\ RecvSemaphoreDown(c, x, s, v, m, n, w)
    \/ \E c \in Clients, x \in Contexts, s \in SemIds, v \in InitialValues,
          n \in Amounts :
          /\ Received < MaxReplyMsgs
          /\ Received = 0 => c = FirstClient
          /\ RecvSemaphoreUp(c, x, s, v, n)
    \/ \E id \in 1..MaxReplyMsgs, n \in ReleaseAmounts :
          RecvSemaphoreRelease(id, n)
    \/ \E c \in Clients, x \in Contexts, v \in Values :
          /\ Received < MaxReplyMsgs
          /\ Received = 0 => c = FirstClient
          /\ RecvReserve(c, x, <<v>>)
    \/ \E c \in Clients : Disconnect(c)
    \/ \E id \in 1..MaxReplyMsgs : RunLockTeardown(id)
    \/ \E id \in 1..MaxReplyMsgs : RunSemaphoreTeardown(id)
    \/ \E id \in 1..MaxReplyMsgs : RunReserveTeardown(id)

SpecReplies == Init /\ [][NextReplies]_vars

NextLock ==
    \/ \E c \in Clients, x \in Contexts, l \in LockIds, w \in BOOLEAN :
          RecvLock(c, x, l, w)
    \/ \E id \in 1..MaxLockMsgs : RecvLockRelease(id)
    \/ \E c \in Clients : Disconnect(c)
    \/ \E id \in 1..MaxLockMsgs : RunLockTeardown(id)

SpecLock == InitLock /\ [][NextLock]_vars

\* The requests for one lock.  Every granted acquisition is released once its
\* client asks for it, and the host runs the teardown callbacks of a test
\* worker that exited.
NextOneLock ==
    \/ \E c \in Clients, x \in Contexts, w \in BOOLEAN : RecvLock(c, x, "l1", w)
    \/ \E id \in 1..MaxLockMsgs : RecvLockRelease(id)
    \/ \E c \in Clients : Disconnect(c)
    \/ \E id \in 1..MaxLockMsgs : RunLockTeardown(id)

SpecLockLive ==
    /\ InitLock
    /\ [][NextOneLock]_vars
    /\ \A id \in 1..MaxLockMsgs :
          WF_vars(RecvLockRelease(id)) /\ WF_vars(RunLockTeardown(id))

\* ----------------------------------------------------------- lock claims

Range(s) == {s[i] : i \in 1..Len(s)}

Pos(s, e) == CHOOSE i \in 1..Len(s) : s[i] = e

LockOf(id) == locks[lmsgs[id].ctx][lmsgs[id].lockId]

\* The acquire requests of lock (x, l) that were granted and not released yet.
HoldersOf(x, l) ==
    {id \in LockIdsOfMsgs :
        lmsgs[id].ctx = x /\ lmsgs[id].lockId = l /\ LockListening(lmsgs[id])}

\* The release() of message id runs in this step.
LockHookRuns(id) ==
    /\ id \in LockIdsOfMsgs
    /\ lmsgs[id].hook = "armed"
    /\ lmsgs'[id].hook = "done"

OtherRepliesUnchanged(ids) ==
    \A o \in LockIdsOfMsgs \ ids : lmsgs'[o].replies = lmsgs[o].replies

\* C1: for every (context, lock) at most one acquire request is granted and
\* not yet released, and it is the one the lock table records as holder.
C1_AtMostOneHolder ==
    \A x \in Contexts, l \in LockIds :
        /\ Cardinality(HoldersOf(x, l)) <= 1
        /\ \A id \in HoldersOf(x, l) :
              locks[x][l].present /\ locks[x][l].holderId = id

\* A lock under contention that already changed hands: it has a holder that
\* was not its first acquirer and two more requests wait.
C1_Witness ==
    \E x \in Contexts, l \in LockIds :
        /\ locks[x][l].present
        /\ lmsgs[locks[x][l].holderId].queued
        /\ Len(locks[x][l].waiting) >= 2
        /\ \E g \in LockIdsOfMsgs :
              /\ g < locks[x][l].holderId
              /\ lmsgs[g].lockId = l
              /\ LockAcquired(lmsgs[g])

\* C2: when the holder releases a lock that has waiters, the waiter with the
\* least message id (the earliest enqueued) among the connected ones becomes
\* holder, it alone gets LOCK_ACQUIRED, the others keep their order; a waiter
\* whose teardown ran before it was granted never gets a reply.
C2_ReleaseStep ==
    /\ \A id \in LockIdsOfMsgs :
          (/\ LockHookRuns(id)
           /\ connected[lmsgs[id].client]
           /\ LockOf(id).present
           /\ LockOf(id).holderId = id
           /\ LockOf(id).waiting # <<>>)
          => LET w == LockOf(id).waiting
                 live == {h \in Range(w) : connected[lmsgs[h].client]}
                 first == CHOOSE h \in live : \A k \in live : h <= k
                 after == locks'[lmsgs[id].ctx][lmsgs[id].lockId]
             IN /\ live # {}
                /\ after.present
                /\ after.holderId = first
                /\ after.waiting = SelectSeq(w, LAMBDA h : h # first)
                /\ lmsgs'[first].replies = <<"LOCK_ACQUIRED">>
                /\ OtherRepliesUnchanged({first})
    /\ \A id \in LockIdsOfMsgs :
          (lmsgs[id].hook = "done" /\ lmsgs[id].replies = <<>>)
          => lmsgs'[id].replies = <<>>

C2_FifoTransfer == [][C2_ReleaseStep]_vars

\* The lock went to a waiter while an earlier waiter had been removed by its
\* disconnect and a later waiter is still queued.
C2_Witness ==
    \E x \in Contexts, l \in LockIds :
        /\ locks[x][l].present
        /\ lmsgs[locks[x][l].holderId].queued
        /\ locks[x][l].waiting # <<>>
        /\ \E s \in LockIdsOfMsgs :
              /\ s < locks[x][l].holderId
              /\ lmsgs[s].lockId = l
              /\ lmsgs[s].hook = "done"
              /\ lmsgs[s].replies = <<>>
              /\ \E r \in LockIdsOfMsgs :
                    /\ r < s
                    /\ lmsgs[r].lockId = l
                    /\ LockAcquired(lmsgs[r])
                    /\ connected[lmsgs[r].client]

\* A request that got LOCK_FAILED is neither holder nor waiter of any lock.
FailedNotQueued ==
    \A id \in LockIdsOfMsgs :
        lmsgs[id].replies = <<"LOCK_FAILED">> =>
            /\ LockOf(id).holderId # id
            /\ id \notin Range(LockOf(id).waiting)

\* C3: an acquire with wait = false on a held lock replies LOCK_FAILED and
\* leaves every lock's holder and waiting list as they were; the request is
\* never queued and never gets another reply.
C3_DeniedStep ==
    /\ \A c \in Clients, x \in Contexts, l \in LockIds :
          (RecvLock(c, x, l, FALSE) /\ locks[x][l].present)
          => /\ locks' = locks
             /\ lmsgs'[Len(lmsgs) + 1].replies = <<"LOCK_FAILED">>
             /\ OtherRepliesUnchanged({})
    /\ \A id \in LockIdsOfMsgs :
          lmsgs[id].replies = <<"LOCK_FAILED">> =>
              lmsgs'[id].replies = <<"LOCK_FAILED">>
    /\ FailedNotQueued'

C3_AcquireNowDenied == [][C3_DeniedStep]_vars

\* A denied request next to a holder and a waiter of the same lock.
C3_Witness ==
    \E id \in LockIdsOfMsgs :
        /\ lmsgs[id].replies = <<"LOCK_FAILED">>
        /\ LockOf(id).present
        /\ LockOf(id).waiting # <<>>
        /\ LockOf(id).holderId > id

\* No lock is held by a request of a test worker that has exited.
NoDisconnectedHolder ==
    \A x \in Contexts, l \in LockIds :
        locks[x][l].present => connected[lmsgs[locks[x][l].holderId].client]

\* C4: the teardown of a disconnected holder deletes the lock when nobody
\* waits and otherwise hands it to the head of the waiting list, which gets
\* LOCK_ACQUIRED; once all teardown callbacks of the exited test worker have
\* run no lock is held by it.
C4_HolderTeardownStep ==
    /\ \A id \in LockIdsOfMsgs :
          (/\ LockHookRuns(id)
           /\ ~connected[lmsgs[id].client]
           /\ LockOf(id).present
           /\ LockOf(id).holderId = id)
          => LET w == LockOf(id).waiting
                 after == locks'[lmsgs[id].ctx][lmsgs[id].lockId]
             IN IF w = <<>>
                THEN after = NoLock /\ OtherRepliesUnchanged({})
                ELSE /\ after = [present |-> TRUE, holderId |-> Head(w),
                                 waiting |-> Tail(w)]
                     /\ lmsgs'[Head(w)].replies = <<"LOCK_ACQUIRED">>
                     /\ OtherRepliesUnchanged({Head(w)})
    /\ (~TeardownPending)' => NoDisconnectedHolder'

C4_HolderDisconnect == [][C4_HolderTeardownStep]_vars

\* A waiter holds the lock that the teardown of a disconnected holder gave it.
C4_Witness ==
    \E x \in Contexts, l \in LockIds :
        /\ locks[x][l].present
        /\ lmsgs[locks[x][l].holderId].queued
        /\ \E g \in LockIdsOfMsgs :
              /\ g < locks[x][l].holderId
              /\ lmsgs[g].ctx = x /\ lmsgs[g].lockId = l
              /\ LockAcquired(lmsgs[g])
              /\ lmsgs[g].hook = "done"
              /\ ~connected[lmsgs[g].client]
              /\ \A o \in LockIdsOfMsgs :
                    (o < locks[x][l].holderId /\ o # g) => lmsgs[o].lockId # l

\* C5: the teardown of a request that only waits removes it from the waiting
\* list; the holder, the order of the other waiters, every other lock and
\* every reply stay as they were.
C5_WaiterTeardownStep ==
    \A id \in LockIdsOfMsgs :
        (/\ LockHookRuns(id)
         /\ ~connected[lmsgs[id].client]
         /\ id \in Range(LockOf(id).waiting))
        => LET w == LockOf(id).waiting
               x == lmsgs[id].ctx
               l == lmsgs[id].lockId
               after == locks'[x][l]
           IN /\ after.present
              /\ after.holderId = LockOf(id).holderId
              /\ Range(after.waiting) = Range(w) \ {id}
              /\ Len(after.waiting) = Len(w) - 1
              /\ \A a, b \in Range(w) \ {id} :
                    Pos(w, a) < Pos(w, b) =>
                        Pos(after.waiting, a) < Pos(after.waiting, b)
              /\ \A y \in Contexts, k \in LockIds :
                    <<y, k>> # <<x, l>> => locks'[y][k] = locks[y][k]
              /\ OtherRepliesUnchanged({})

C5_WaiterDisconnect == [][C5_WaiterTeardownStep]_vars

\* A waiter was removed by its disconnect from between two waiters that are
\* still queued.
C5_Witness ==
    \E x \in Contexts, l \in LockIds :
        /\ Len(locks[x][l].waiting) = 2
        /\ \E s \in LockIdsOfMsgs :
              /\ lmsgs[s].ctx = x /\ lmsgs[s].lockId = l
              /\ lmsgs[s].hook = "done"
              /\ lmsgs[s].replies = <<>>
              /\ locks[x][l].waiting[1] < s
              /\ s < locks[x][l].waiting[2]

\* C6: a lock entry exists exactly when some acquire request holds the lock;
\* an entry names its holder, and an absent entry has no waiters.
C6_EntryIffHeld ==
    \A x \in Contexts, l \in LockIds :
        /\ locks[x][l].present <=> HoldersOf(x, l) # {}
        /\ locks[x][l].present => locks[x][l].holderId \in HoldersOf(x, l)
        /\ ~locks[x][l].present => locks[x][l] = NoLock

\* A lock is gone again after its last holder, a former waiter, released it.
C6_Witness ==
    \E x \in Contexts, l \in LockIds :
        /\ ~locks[x][l].present
        /\ \E g, h \in LockIdsOfMsgs :
              /\ g < h
              /\ lmsgs[g].ctx = x /\ lmsgs[g].lockId = l
              /\ lmsgs[h].ctx = x /\ lmsgs[h].lockId = l
              /\ LockAcquired(lmsgs[g])
              /\ LockAcquired(lmsgs[h])
              /\ lmsgs[h].queued

\* Message id waits for its lock.
LockQueued(id) == id \in LockIdsOfMsgs /\ id \in Range(LockOf(id).waiting)

\* C7: a queued blocking acquire is eventually granted unless its own test
\* worker exits, given that every holder before it releases or disconnects.
C7_WaiterEventuallyGranted ==
    \A id \in 1..MaxLockMsgs :
        LockQueued(id) ~>
            (id \in LockIdsOfMsgs /\
                (LockAcquired(lmsgs[id]) \/ ~connected[lmsgs[id].client]))

\* A request that waited behind a holder and another waiter holds the lock.
C7_Witness ==
    \E x \in Contexts, l \in LockIds :
        /\ locks[x][l].present
        /\ connected[lmsgs[locks[x][l].holderId].client]
        /\ lmsgs[locks[x][l].holderId].queued
        /\ Cardinality({g \in LockIdsOfMsgs :
                          /\ g < locks[x][l].holderId
                          /\ lmsgs[g].ctx = x /\ lmsgs[g].lockId = l
                          /\ LockAcquired(lmsgs[g])
                          /\ lmsgs[g].hook = "done"}) >= 2

\* C8: while a request of client c holds the lock, an acquireNow of c is
\* denied and an acquire of c is queued behind it without a reply.
C8_OwnHolderStep ==
    \A c \in Clients, x \in Contexts, l \in LockIds, w \in BOOLEAN :
        (/\ RecvLock(c, x, l, w)
         /\ locks[x][l].present
         /\ lmsgs[locks[x][l].holderId].client = c)
        => LET id == Len(lmsgs) + 1 IN
           /\ locks'[x][l].holderId = locks[x][l].holderId
           /\ ~LockAcquired(lmsgs'[id])
           /\ IF w
              THEN /\ locks'[x][l].waiting = Append(locks[x][l].waiting, id)
                   /\ lmsgs'[id].replies = <<>>
              ELSE /\ locks'[x][l].waiting = locks[x][l].waiting
                   /\ lmsgs'[id].replies = <<"LOCK_FAILED">>

C8_NotReentrant == [][C8_OwnHolderStep]_vars

\* A client waits for a lock that one of its own requests holds, and one of
\* its acquireNow requests for that lock was denied.
C8_Witness ==
    \E x \in Contexts, l \in LockIds :
        /\ locks[x][l].present
        /\ \E q \in Range(locks[x][l].waiting), f \in LockIdsOfMsgs :
              /\ lmsgs[q].client = lmsgs[locks[x][l].holderId].client
              /\ lmsgs[f].client = lmsgs[q].client
              /\ lmsgs[f].ctx = x /\ lmsgs[f].lockId = l
              /\ lmsgs[f].replies = <<"LOCK_FAILED">>

\* ---------------------------------------------------------------------
\* Semaphores: value invariants
\* ---------------------------------------------------------------------

SemaphoresOf == {xs \in Contexts \X SemIds : sems[xs[1]][xs[2]].present}

SemOf(xs) == sems[xs[1]][xs[2]]

\* C9: the current value of every semaphore is non-negative in every
\* reachable state, whatever the interleaving of down, downNow, up, acquire,
\* acquireNow, partial and full release, and client disconnect.
C9_ValueNonNegative ==
    \A x \in Contexts, s \in SemIds : sems[x][s].value >= 0

\* A semaphore is at 0 with a request in its queue, it refused a
\* downNow/acquireNow, and a request it granted is still held.
C9_Witness ==
    \E xs \in SemaphoresOf :
        /\ SemOf(xs).value = 0
        /\ SemOf(xs).queue # <<>>
        /\ \E id \in 1..Len(smsgs) :
              /\ smsgs[id].ctx = xs[1] /\ smsgs[id].sem = xs[2]
              /\ smsgs[id].kind = "down" /\ smsgs[id].granted
        /\ \E id \in 1..Len(smsgs) :
              /\ smsgs[id].ctx = xs[1] /\ smsgs[id].sem = xs[2]
              /\ smsgs[id].replies = <<"SEMAPHORE_FAILED">>

\* C10: at every instant between two handlers the value of a semaphore is its
\* initial value, plus the amounts incremented (up messages, managed
\* releases, teardown of exited test workers), minus the amounts of the
\* down/acquire requests that were granted, each granted request counted
\* once.
C10_ValueAccounting ==
    \A xs \in SemaphoresOf :
        SemOf(xs).value = SemOf(xs).initialValue + SemOf(xs).balance

\* ---------------------------------------------------------------------
\* Semaphores: the queue
\* ---------------------------------------------------------------------

\* Request id is granted in this step for the first time.
GrantedNow(id) == ~smsgs[id].granted /\ smsgs'[id].granted

\* C11: queued requests are granted in the order in which they were
\* enqueued: a step never grants a queued request while a request that was
\* enqueued before it is in the queue and is not granted by that step too.
C11_FifoStep ==
    \A xs \in SemaphoresOf :
        LET queue == SemOf(xs).queue IN
        \A p \in 1..Len(queue) :
            GrantedNow(queue[p].id)
                => \A i \in 1..(p - 1) : smsgs'[queue[i].id].granted

C11_FifoOrder == [][C11_FifoStep]_vars

RECURSIVE SumAmounts(_)
SumAmounts(queue) ==
    IF queue = <<>> THEN 0 ELSE Head(queue).amount + SumAmounts(Tail(queue))

\* The length of the longest prefix of queue whose amounts can be taken one
\* after another from value.
LongestPrefix(value, queue) ==
    CHOOSE k \in 0..Len(queue) :
        /\ SumAmounts(SubSeq(queue, 1, k)) <= value
        /\ \A j \in (k + 1)..Len(queue) :
              SumAmounts(SubSeq(queue, 1, j)) > value

\* C12: one up(amount) grants exactly the longest prefix of the queue whose
\* amounts can be taken one after another from the incremented value: each
\* request of the prefix is woken once and leaves the queue, the other
\* requests stay queued in their order and are not woken, and the value
\* decreases by the sum of the granted amounts.  Stated for the up() of a
\* SEMAPHORE_UP message.
C12_UpStep ==
    \A c \in Clients, x \in Contexts, s \in SemIds, v \in InitialValues,
       n \in Amounts :
        (/\ RecvSemaphoreUp(c, x, s, v, n)
         /\ GetSemaphore(revision, sems, x, s, v, FALSE).ok)
        => LET queue == sems[x][s].queue
               value == (IF sems[x][s].present THEN sems[x][s].value ELSE v)
                        + n
               k == LongestPrefix(value, queue)
           IN /\ sems'[x][s].queue = SubSeq(queue, k + 1, Len(queue))
              /\ sems'[x][s].value
                    = value - SumAmounts(SubSeq(queue, 1, k))
              /\ \A i \in 1..Len(queue) :
                    smsgs'[queue[i].id].replies =
                        IF i <= k
                        THEN Append(smsgs[queue[i].id].replies,
                                    "SEMAPHORE_SUCCEEDED")
                        ELSE smsgs[queue[i].id].replies

C12_UpGrantsPrefix == [][C12_UpStep]_vars

\* C13: a blocking down/acquire that is accepted (the step adds the closure
\* of a waiting request) while the queue is not empty is appended at the
\* tail and gets no reply, also when its amount (0 included) is no greater
\* than the value; it succeeds at once, taking its amount, only when the
\* queue is empty and the value is at least the amount.
C13_DownStep ==
    LET id == Len(smsgs) + 1 IN
    (/\ Len(smsgs') = id
     /\ smsgs'[id].kind = "down"
     /\ smsgs'[id].wait)
    => LET x == smsgs'[id].ctx
           s == smsgs'[id].sem
           n == smsgs'[id].amount
           queue == sems[x][s].queue
           value == IF sems[x][s].present THEN sems[x][s].value
                    ELSE sems'[x][s].initialValue
       IN IF queue = <<>> /\ value >= n
          THEN /\ sems'[x][s].queue = <<>>
               /\ sems'[x][s].value = value - n
               /\ smsgs'[id].replies = <<"SEMAPHORE_SUCCEEDED">>
          ELSE /\ sems'[x][s].queue = Append(queue, [id |-> id, amount |-> n])
               /\ sems'[x][s].value = value
               /\ smsgs'[id].replies = <<>>
               /\ ~smsgs'[id].granted

C13_QueuedBehindWaiters == [][C13_DownStep]_vars

\* The last request of a queue of two or more waits without a reply while
\* the value, which is not 0, is at least its amount.
C13_Witness ==
    \E xs \in SemaphoresOf :
        LET queue == SemOf(xs).queue IN
        /\ Len(queue) >= 2
        /\ SemOf(xs).value > 0
        /\ queue[Len(queue)].amount <= SemOf(xs).value
        /\ queue[Len(queue)].id = Len(smsgs)
        /\ smsgs[Len(smsgs)].replies = <<>>

\* Every queue item belongs to a waiting request.
QueuedRequestsWait ==
    \A x \in Contexts, s \in SemIds :
        \A i \in 1..Len(sems[x][s].queue) :
            /\ smsgs[sems[x][s].queue[i].id].kind = "down"
            /\ smsgs[sems[x][s].queue[i].id].wait

\* C14: a downNow/acquireNow(amount) that names the parameters of the
\* semaphore succeeds, taking amount from the value, exactly when the value
\* is at least amount, whatever the queue holds; otherwise it is answered
\* with SEMAPHORE_FAILED and the value is unchanged.  In both cases the queue
\* is unchanged, and no queue ever holds a request that does not wait.
C14_DownNowStep ==
    /\ QueuedRequestsWait
    /\ \A c \in Clients, x \in Contexts, s \in SemIds, v \in InitialValues,
          m \in BOOLEAN, n \in AmountsFromZero :
           (/\ Len(smsgs') = Len(smsgs) + 1
            /\ GetSemaphore(revision, sems, x, s, v, m).ok
            /\ RecvSemaphoreDown(c, x, s, v, m, n, FALSE))
           => LET id == Len(smsgs) + 1
                  value == IF sems[x][s].present THEN sems[x][s].value ELSE v
              IN /\ sems'[x][s].queue = sems[x][s].queue
                 /\ IF value >= n
                    THEN /\ sems'[x][s].value = value - n
                         /\ smsgs'[id].replies = <<"SEMAPHORE_SUCCEEDED">>
                    ELSE /\ sems'[x][s].value = value
                         /\ smsgs'[id].replies = <<"SEMAPHORE_FAILED">>

C14_DownNowIffValue == [][C14_DownNowStep]_vars

\* A downNow/acquireNow was granted after the request at the head of the
\* queue had been enqueued, and another one was refused.
C14_Witness ==
    \E xs \in SemaphoresOf :
        /\ SemOf(xs).queue # <<>>
        /\ \E id \in 1..Len(smsgs) :
              /\ smsgs[id].kind = "down" /\ ~smsgs[id].wait
              /\ smsgs[id].granted
              /\ id > SemOf(xs).queue[1].id
        /\ \E id \in 1..Len(smsgs) :
              smsgs[id].replies = <<"SEMAPHORE_FAILED">>

\* ---------------------------------------------------------------------
\* Semaphores: creation parameters
\* ---------------------------------------------------------------------

\* What message id, new in this step, must look like when it was rejected:
\* the only reply is SEMAPHORE_CREATION_FAILED with the parameters of the
\* semaphore, no teardown callback, and nothing else changed.
RejectedWith(id, x, s) ==
    /\ sems' = sems
    /\ smsgs'[id].replies = <<"SEMAPHORE_CREATION_FAILED">>
    /\ smsgs'[id].inEffect = [initialValue |-> sems[x][s].initialValue,
                              managed |-> sems[x][s].managed,
                              sent |-> TRUE]
    /\ smsgs'[id].hook = "none"
    /\ \A j \in 1..Len(smsgs) : smsgs'[j] = smsgs[j]

\* The test worker that sent message id, new in this step.  When the step
\* left nothing of the message but its replies, every connected test worker
\* could have sent it with the same outcome.
SenderOfNew(id) ==
    IF smsgs'[id].kind = "gone"
    THEN CHOOSE c \in Clients : connected[c]
    ELSE smsgs'[id].client

\* C15: once a semaphore exists, a down, downNow, acquire, acquireNow or up
\* that names another initialValue is answered with
\* SEMAPHORE_CREATION_FAILED carrying the parameters in effect, registers
\* and queues nothing, and leaves the semaphore as it was; a request that
\* names the parameters of the semaphore is not answered that way.  Stated
\* for the step that receives message id: if it rejects the message, the
\* rejection is as described and the message did not name the parameters of
\* the semaphore; if it does not, the message did not name another
\* initialValue.
C15_InitialValueStep ==
    LET id == Len(smsgs) + 1 IN
    Len(smsgs') = id =>
    LET x == smsgs'[id].ctx
        s == smsgs'[id].sem
        semaphore == sems[x][s]
        c == SenderOfNew(id)
    IN semaphore.present =>
       IF smsgs'[id].inEffect.sent
       THEN /\ RejectedWith(id, x, s)
            /\ \A n \in Amounts :
                  /\ \A w \in BOOLEAN :
                        ~RecvSemaphoreDown(c, x, s, semaphore.initialValue,
                                           semaphore.managed, n, w)
                  /\ ~semaphore.managed
                        => ~RecvSemaphoreUp(c, x, s, semaphore.initialValue, n)
       ELSE \A n \in Amounts,
               v \in InitialValues \ {semaphore.initialValue} :
               /\ \A m \in BOOLEAN, w \in BOOLEAN :
                     ~RecvSemaphoreDown(c, x, s, v, m, n, w)
               /\ ~RecvSemaphoreUp(c, x, s, v, n)

C15_InitialValueMismatch == [][C15_InitialValueStep]_vars

\* With a request waiting in its queue, a semaphore rejected a request and
\* then granted one; the worker of this revision looks at initialValue only.
C15_Witness ==
    /\ revision = "worker.ts"
    /\ \E xs \in SemaphoresOf :
          /\ SemOf(xs).queue # <<>>
          /\ \E i, j \in 1..Len(smsgs) :
                /\ i < j
                /\ smsgs[i].inEffect.sent
                /\ smsgs[i].inEffect.initialValue = SemOf(xs).initialValue
                /\ SemSucceeded(smsgs[j])

\* C16: managed and unmanaged semaphores share the ids of a context: once a
\* semaphore exists, a request for its id with the other flavor is rejected
\* with SEMAPHORE_CREATION_FAILED, also when it names the same initialValue,
\* and the semaphore is not changed.  Stated for the step that receives
\* message id: if it does not reject the message, the message did not name
\* the initialValue of the semaphore with the other flavor.
C16_FlavorStep ==
    LET id == Len(smsgs) + 1 IN
    Len(smsgs') = id =>
    LET x == smsgs'[id].ctx
        s == smsgs'[id].sem
        semaphore == sems[x][s]
        c == SenderOfNew(id)
    IN semaphore.present =>
       IF smsgs'[id].inEffect.sent
       THEN RejectedWith(id, x, s)
       ELSE \A n \in Amounts :
               /\ \A w \in BOOLEAN :
                     ~RecvSemaphoreDown(c, x, s, semaphore.initialValue,
                                        ~semaphore.managed, n, w)
               /\ semaphore.managed
                     => ~RecvSemaphoreUp(c, x, s, semaphore.initialValue, n)

C16_SharedIdSpace == [][C16_FlavorStep]_vars

\* C17: a semaphore, once created, is never removed from its context, and
\* its initialValue and flavor never change, also when its value is 0, its
\* queue is empty and every client has disconnected.
C17_PinnedStep ==
    \A x \in Contexts, s \in SemIds :
        sems[x][s].present
        => /\ sems'[x][s].present
           /\ sems'[x][s].initialValue = sems[x][s].initialValue
           /\ sems'[x][s].managed = sems[x][s].managed

C17_NeverRemoved == [][C17_PinnedStep]_vars

\* A semaphore made with a positive initialValue is at 0 with an empty queue,
\* it rejected a request, and every test worker has exited and has been
\* cleaned up after.
C17_Witness ==
    /\ \A c \in Clients : ~connected[c]
    /\ ~SemTeardownPending
    /\ \E xs \in SemaphoresOf :
          /\ SemOf(xs).initialValue > 0
          /\ SemOf(xs).value = 0
          /\ SemOf(xs).queue = <<>>
          /\ \E id \in 1..Len(smsgs) : smsgs[id].inEffect.sent

\* ---------------------------------------------------------------------
\* Semaphores: release handles
\* ---------------------------------------------------------------------

\* The amount that the release handle of message id gives back in this
\* step: the handle of a connected client holds that much less after it.
ReleasedNow(id) ==
    IF /\ Len(smsgs') = Len(smsgs)
       /\ smsgs[id].kind = "down"
       /\ connected[smsgs[id].client]
    THEN smsgs[id].remaining - smsgs'[id].remaining
    ELSE 0

\* C18: for a managed acquisition obtained by acquire or acquireNow, every
\* release of k, k no greater than the amount still outstanding, increments
\* the semaphore by exactly k when it is processed, so that releases that
\* sum to the acquired amount bring the value back.  Stated with nobody
\* waiting for the semaphore, so that the value shows the increment.
C18_ReleaseStep ==
    \A id \in 1..Len(smsgs) :
        (ReleasedNow(id) > 0 /\ sems[smsgs[id].ctx][smsgs[id].sem].queue = <<>>)
        => sems'[smsgs[id].ctx][smsgs[id].sem].value
             = sems[smsgs[id].ctx][smsgs[id].sem].value + ReleasedNow(id)

C18_PartialRelease == [][C18_ReleaseStep]_vars

\* The state of message id's release handle and of its reply loop is the
\* same after this step.
HandleUntouched(id) ==
    /\ smsgs'[id].remaining = smsgs[id].remaining
    /\ smsgs'[id].listening = smsgs[id].listening
    /\ smsgs'[id].replies = smsgs[id].replies
    /\ \A o \in 1..Len(smsgs) : o # id => smsgs'[o] = smsgs[o]

\* C19: a release handle called with more than the amount still outstanding
\* for its acquisition (after a partial release, or any positive amount
\* after the full release) throws a RangeError on the client: no message is
\* sent, and the outstanding amount, the semaphore's value and its queue
\* stay as they are.
C19_OverReleaseStep ==
    \A id \in 1..Len(smsgs) :
        (Len(smsgs') = Len(smsgs) /\ smsgs[id].kind = "down")
        => \A release \in Amounts :
              (release > smsgs[id].remaining /\ CallRelease(id, release))
              => /\ smsgs'[id].thrown
                 /\ sems' = sems
                 /\ HandleUntouched(id)

C19_OverReleaseRejected == [][C19_OverReleaseStep]_vars

\* The handle of an acquisition of 2 threw when it was asked for 2 after it
\* had given back 1, while another request waits for the semaphore.
C19_Witness ==
    \E id \in 1..Len(smsgs) :
        /\ smsgs[id].kind = "down"
        /\ smsgs[id].thrown
        /\ smsgs[id].listening
        /\ smsgs[id].remaining = 1
        /\ smsgs[id].acquired = 1
        /\ sems[smsgs[id].ctx][smsgs[id].sem].queue # <<>>

\* C20: a release of zero on a handle, while an amount is outstanding or
\* after the full release, is accepted and leaves the semaphore's value, its
\* queue and the outstanding amount as they are.
C20_ReleaseZeroStep ==
    \A id \in 1..Len(smsgs) :
        (/\ Len(smsgs') = Len(smsgs)
         /\ smsgs[id].kind = "down"
         /\ CallRelease(id, 0) \/ RecvSemaphoreRelease(id, 0))
        => /\ ~smsgs'[id].thrown
           /\ smsgs'[id].remaining = smsgs[id].remaining
           /\ sems'[smsgs[id].ctx][smsgs[id].sem].value
                = sems[smsgs[id].ctx][smsgs[id].sem].value
           /\ sems'[smsgs[id].ctx][smsgs[id].sem].queue
                = sems[smsgs[id].ctx][smsgs[id].sem].queue

C20_ReleaseZero == [][C20_ReleaseZeroStep]_vars

\* ---------------------------------------------------------------------
\* Semaphores: disconnect
\* ---------------------------------------------------------------------

\* The teardown callback of message id, whose test worker has exited, runs
\* in this step.
TornDownNow(id) ==
    /\ smsgs[id].hook = "armed"
    /\ ~connected[smsgs[id].client]
    /\ smsgs'[id].hook # "armed"

\* The step leaves semaphore (x, s) and the replies as semaphore.up(amount)
\* does, the queue item of message id, if any, being dropped afterwards.
AsUp(x, s, amount, id) ==
    LET u == SemUp(revision, sems, smsgs, x, s, amount) IN
    /\ sems'[x][s].value = u.sems[x][s].value
    /\ sems'[x][s].queue
          = SelectSeq(u.sems[x][s].queue, LAMBDA item : item.id # id)
    /\ \A o \in 1..Len(smsgs) : smsgs'[o].replies = u.smsgs[o].replies

\* C21: when a client disconnects while a managed acquisition of it (from
\* acquire or acquireNow) has an outstanding amount r > 0, r being the
\* granted amount less what its release handle gave back, the teardown of
\* the acquisition increments the semaphore by exactly r, once, and wakes
\* queued waiters as up(r) does.
C21_TeardownStep ==
    \A id \in 1..Len(smsgs) :
        (/\ TornDownNow(id)
         /\ smsgs[id].managed
         /\ smsgs[id].granted
         /\ smsgs[id].remaining > 0)
        => AsUp(smsgs[id].ctx, smsgs[id].sem, smsgs[id].remaining, id)

C21_AutoRelease == [][C21_TeardownStep]_vars

\* Message id is a request that waits in the queue of its semaphore.
SemQueued(id) ==
    /\ smsgs[id].kind = "down"
    /\ ~smsgs[id].granted
    /\ \E i \in 1..Len(sems[smsgs[id].ctx][smsgs[id].sem].queue) :
          sems[smsgs[id].ctx][smsgs[id].sem].queue[i].id = id

\* C22: when a client disconnects, each request of it that is still queued
\* on a semaphore is never granted afterwards and never decrements the
\* value; its teardown removes it from the queue and leaves the value, the
\* replies and the order of the other queued requests as they are; and once
\* the teardowns have run no queue holds a request of the client.
C22_QueuedStep ==
    /\ \A id \in 1..Len(smsgs) :
          (SemQueued(id) /\ ~connected[smsgs[id].client])
          => /\ ~smsgs'[id].granted
             /\ smsgs'[id].replies = smsgs[id].replies
             /\ TornDownNow(id)
                 => /\ sems'[smsgs[id].ctx][smsgs[id].sem].queue
                         = SelectSeq(sems[smsgs[id].ctx][smsgs[id].sem].queue,
                                     LAMBDA item : item.id # id)
                    /\ sems'[smsgs[id].ctx][smsgs[id].sem].value
                         = sems[smsgs[id].ctx][smsgs[id].sem].value
                    /\ \A o \in 1..Len(smsgs) :
                          smsgs'[o].replies = smsgs[o].replies
    /\ ~SemTeardownPending
       => \A xs \in SemaphoresOf : \A i \in 1..Len(SemOf(xs).queue) :
             connected[smsgs[SemOf(xs).queue[i].id].client]

C22_QueuedPurged == [][C22_QueuedStep]_vars

\* C23: the disconnect of a client never increments the value of an
\* unmanaged semaphore: the teardown of a request for it, whether the amount
\* was taken with down or with downNow, leaves the value as it is and grants
\* no queued request.
C23_UnmanagedStep ==
    \A id \in 1..Len(smsgs) :
        (/\ TornDownNow(id)
         /\ ~sems[smsgs[id].ctx][smsgs[id].sem].managed)
        => /\ sems'[smsgs[id].ctx][smsgs[id].sem].value
                = sems[smsgs[id].ctx][smsgs[id].sem].value
           /\ \A o \in 1..Len(smsgs) : smsgs'[o].replies = smsgs[o].replies

C23_NoAutoRelease == [][C23_UnmanagedStep]_vars

\* A test worker has exited and all its teardown callbacks have run.
DisconnectProcessed ==
    /\ \E c \in Clients : ~connected[c]
    /\ ~TeardownPending

\* C24: after a client's disconnect has been processed, what it held is
\* available to the others at once: no request of a connected client is
\* queued on a semaphore whose head request asks for no more than the
\* value, and no connected lock waiter is queued on a lock without a holder.
C24_AvailableAtOnce ==
    DisconnectProcessed
    => /\ \A xs \in SemaphoresOf :
             LET queue == SemOf(xs).queue IN
             (\E i \in 1..Len(queue) : connected[smsgs[queue[i].id].client])
             => Head(queue).amount > SemOf(xs).value
       /\ \A x \in Contexts, l \in LockIds :
             (\E i \in 1..Len(locks[x][l].waiting) :
                 connected[lmsgs[locks[x][l].waiting[i]].client])
             => /\ locks[x][l].present
                /\ LockListening(lmsgs[locks[x][l].holderId])

\* ---------------------------------------------------------------------
\* Reservations
\* ---------------------------------------------------------------------

\* The reserve calls whose teardown callback has not run.
LiveReserves == {id \in 1..Len(rmsgs) : rmsgs[id].hook = "armed"}

\* The values that the reserve call of message id returned to its client.
ValuesOf(id) == Range(Returned(rmsgs[id].values, rmsgs[id].replies[1]))

\* C25: within one context a reserved value has one owner: no two reserve
\* requests of a context whose clients' teardown has not run got the same
\* value, and what a request got is in the context's set.
C25_SingleOwner ==
    \A i \in LiveReserves :
        /\ ValuesOf(i) \subseteq reserved[rmsgs[i].ctx]
        /\ \A j \in LiveReserves :
              (i # j /\ rmsgs[i].ctx = rmsgs[j].ctx)
              => ValuesOf(i) \cap ValuesOf(j) = {}

\* A connected client asked for a value that another connected client owns,
\* and did not get it.
C25_Witness ==
    \E i \in LiveReserves, j \in LiveReserves :
        /\ i < j
        /\ rmsgs[i].ctx = rmsgs[j].ctx
        /\ rmsgs[i].client # rmsgs[j].client
        /\ connected[rmsgs[i].client] /\ connected[rmsgs[j].client]
        /\ ValuesOf(i) \cap Range(rmsgs[j].values) # {}
        /\ ValuesOf(j) # {}

\* A RESERVE message is received in this step.
ReservedNow == Len(rmsgs') = Len(rmsgs) + 1

\* C26: reserve(values) returns, in increasing order, exactly the indexes
\* of the values that were not in the context's set and do not occur at an
\* earlier position of the same call; after the call the set is the old set
\* plus all the values.
C26_ReserveStep ==
    ReservedNow
    => LET m == rmsgs'[Len(rmsgs')]
           old == reserved[m.ctx]
           first == {p \in 1..Len(m.values) :
                       /\ m.values[p] \notin old
                       /\ \A q \in 1..(p - 1) : m.values[q] # m.values[p]}
           indexes == m.replies[1]
       IN /\ Len(m.replies) = 1
          /\ {indexes[i] + 1 : i \in 1..Len(indexes)} = first
          /\ \A i \in 1..(Len(indexes) - 1) : indexes[i] < indexes[i + 1]
          /\ reserved'[m.ctx] = old \cup Range(m.values)

C26_ReserveResult == [][C26_ReserveStep]_vars

\* A call with a repeated value got it once, and did not get a value that
\* was reserved before.
C26_Witness ==
    \E id \in LiveReserves :
        /\ Len(rmsgs[id].values) = 2
        /\ rmsgs[id].values[1] = rmsgs[id].values[2]
        /\ rmsgs[id].replies = << <<0>> >>
        /\ \E o \in LiveReserves :
              o > id /\ Len(rmsgs[o].values) = 2 /\ rmsgs[o].replies = << <<1>> >>

\* The teardown callback of reserve message id runs in this step.
ReserveTornDownNow(id) ==
    /\ rmsgs[id].hook = "armed"
    /\ ~connected[rmsgs[id].client]
    /\ rmsgs'[id].hook # "armed"

\* C27: when a client disconnects, exactly the values that its own reserve
\* requests got are removed from the context's set; the values of other
\* clients, and the values it asked for but did not get, stay reserved.
C27_TeardownStep ==
    \A id \in 1..Len(rmsgs) :
        ReserveTornDownNow(id)
        => /\ reserved'[rmsgs[id].ctx] = reserved[rmsgs[id].ctx] \ ValuesOf(id)
           /\ \A x \in AllContexts :
                 x # rmsgs[id].ctx => reserved'[x] = reserved[x]
           /\ \A o \in LiveReserves \ {id} :
                 /\ rmsgs'[o] = rmsgs[o]
                 /\ rmsgs[o].client # rmsgs[id].client
                    => ValuesOf(o) \subseteq reserved'[rmsgs[o].ctx]
           /\ \A p \in 1..Len(rmsgs[id].values) :
                 (/\ rmsgs[id].values[p] \in reserved[rmsgs[id].ctx]
                  /\ rmsgs[id].values[p] \notin ValuesOf(id))
                 => rmsgs[id].values[p] \in reserved'[rmsgs[id].ctx]

C27_ReservationsCleared == [][C27_TeardownStep]_vars

\* The client that asked for two values and got one has gone: the value it
\* got is free again, the value it did not get is still reserved for its
\* owner, who is connected.
C27_Witness ==
    \E id \in 1..Len(rmsgs), o \in LiveReserves :
        /\ rmsgs[id].hook = "done"
        /\ connected[rmsgs[o].client]
        /\ rmsgs[o].ctx = rmsgs[id].ctx
        /\ o < id
        /\ Len(rmsgs[id].values) = 2
        /\ Len(rmsgs[id].replies[1]) = 1
        /\ ValuesOf(o) \cap Range(rmsgs[id].values) # {}
        /\ reserved[rmsgs[o].ctx] = ValuesOf(o)

\* ---------------------------------------------------------------------
\* Contexts
\* ---------------------------------------------------------------------

\* The context ids of the operations of this step: of the message that is
\* received, or else of the messages whose teardown runs or on whose reply
\* channel a release arrives.
OperatedContexts ==
    IF Len(lmsgs') > Len(lmsgs) THEN {lmsgs'[Len(lmsgs')].ctx}
    ELSE IF Len(smsgs') > Len(smsgs) THEN {smsgs'[Len(smsgs')].ctx}
    ELSE IF Len(rmsgs') > Len(rmsgs) THEN {rmsgs'[Len(rmsgs')].ctx}
    ELSE {lmsgs[id].ctx : id \in {i \in 1..Len(lmsgs) :
                lmsgs[i].hook = "armed" /\ lmsgs'[i].hook = "done"}}
         \cup {smsgs[id].ctx : id \in {i \in 1..Len(smsgs) :
                \/ TornDownNow(i)
                \/ /\ smsgs[i].kind # "gone"
                   /\ connected[smsgs[i].client]
                   /\ smsgs[i].listening
                   /\ \/ smsgs'[i].remaining # smsgs[i].remaining
                      \/ ~smsgs'[i].listening
                      \/ RecvSemaphoreRelease(i, 0)}}
         \cup {rmsgs[id].ctx : id \in {i \in 1..Len(rmsgs) :
                ReserveTornDownNow(i)}}

\* C28: contexts are isolated: an operation on one context id, the cleanup
\* after a disconnect included, leaves the lock table, the semaphore table
\* and the reservation set of every other context id, and the replies to
\* the requests of every other context id, as they are.
C28_ContextStep ==
    /\ Cardinality(OperatedContexts) <= 1
    /\ \A y \in AllContexts \ OperatedContexts :
          /\ locks'[y] = locks[y]
          /\ sems'[y] = sems[y]
          /\ reserved'[y] = reserved[y]
          /\ \A id \in 1..Len(lmsgs) :
                lmsgs[id].ctx = y => lmsgs'[id] = lmsgs[id]
          /\ \A id \in 1..Len(smsgs) :
                smsgs[id].ctx = y => smsgs'[id].replies = smsgs[id].replies
          /\ \A id \in 1..Len(rmsgs) :
                rmsgs[id].ctx = y => rmsgs'[id] = rmsgs[id]

C28_ContextsIsolated == [][C28_ContextStep]_vars

\* The same value is reserved in two contexts at once, each for the request
\* that asked for it there.
C28_Witness ==
    \E i \in LiveReserves, j \in LiveReserves :
        /\ rmsgs[i].ctx # rmsgs[j].ctx
        /\ ValuesOf(i) # {}
        /\ ValuesOf(i) = ValuesOf(j)
        /\ ValuesOf(i) \subseteq reserved[rmsgs[i].ctx] \cap reserved[rmsgs[j].ctx]


\* ---------------------------------------------------------------------
\* Cleanup after normal completion
\* ---------------------------------------------------------------------

\* The iteration of the reply loop of downSemaphore for message id up to,
\* and without, its call of release(): semaphore.up(...) and the new value
\* of acquired (worker.ts, ~wait: of amount).
BeforeCleanup(rev, S, ms, id, amount) ==
    LET m == ms[id]
        u == IF rev = "worker.ts" /\ m.wait /\ m.acquired <= 0
             THEN [sems |-> S, smsgs |-> ms]
             ELSE SemUp(rev, S, ms, m.ctx, m.sem, Min(m.acquired, amount))
        acquired == IF rev = "part_005"
                    THEN u.smsgs[id].acquired - Min(m.acquired, amount)
                    ELSE IF ~m.wait THEN Max(0, m.acquired - amount)
                    ELSE IF m.acquired > 0 THEN u.smsgs[id].acquired - amount
                    ELSE m.acquired
    IN [sems |-> u.sems, smsgs |-> [u.smsgs EXCEPT ![id].acquired = acquired]]

\* The reply loop of message id gets a SEMAPHORE_RELEASE in this step and
\* calls release(), which runs the teardown callback.
CleanupCalledNow(id) ==
    /\ Len(smsgs') = Len(smsgs)
    /\ smsgs[id].kind = "down"
    /\ connected[smsgs[id].client]
    /\ smsgs[id].listening
    /\ smsgs[id].hook = "armed"
    /\ smsgs'[id].hook # "armed"

\* C29: the cleanup of an acquisition that its client released in full is
\* a no-op.  For a lock: the teardown callback of a request whose release()
\* ran leaves the lock's holder and waiting list as they are and notifies
\* nobody.  For a managed semaphore: the callback that the reply loop runs
\* after the release that emptied the client's handle, or that the host runs
\* after the exit of a client whose handle was empty, leaves the value as it
\* is and resolves no request.
C29_CleanupStep ==
    /\ \A id \in LockIdsOfMsgs :
          lmsgs[id].hook = "done"
          => LET t == LockTeardown(locks[lmsgs[id].ctx], lmsgs[id].lockId, id)
             IN t.locks = locks[lmsgs[id].ctx] /\ t.notify = 0
    /\ \A id \in 1..Len(smsgs) :
          /\ (CleanupCalledNow(id) /\ smsgs[id].managed
                /\ smsgs'[id].remaining = 0)
             => LET b == BeforeCleanup(revision, sems, smsgs, id,
                                       smsgs[id].remaining)
                    x == smsgs[id].ctx
                    s == smsgs[id].sem
                IN /\ sems'[x][s].value = b.sems[x][s].value
                   /\ \A o \in 1..Len(smsgs) :
                         smsgs'[o].replies = b.smsgs[o].replies
          /\ (TornDownNow(id) /\ smsgs[id].managed /\ smsgs[id].granted
                /\ smsgs[id].remaining = 0)
             => /\ sems'[smsgs[id].ctx][smsgs[id].sem].value
                     = sems[smsgs[id].ctx][smsgs[id].sem].value
                /\ \A o \in 1..Len(smsgs) :
                      smsgs'[o].replies = smsgs[o].replies

C29_CleanupIdempotent == [][C29_CleanupStep]_vars


\* ---------------------------------------------------------------------
\* Replies
\* ---------------------------------------------------------------------

QueueIds(semaphore) == {semaphore.queue[i].id : i \in 1..Len(semaphore.queue)}

\* Message id of smsgs is in the queue of its semaphore.
InQueue(S, ms, id) == id \in QueueIds(S[ms[id].ctx][ms[id].sem])

\* C30: every request gets at most one terminal reply, and a RESERVE exactly
\* one.  A request that waits has no reply: a lock request in a waiting list
\* has none and gets LOCK_ACQUIRED in the step that makes it the holder; a
\* semaphore request gets its first reply either in the step in which it is
\* received or, being in the queue and not granted, SEMAPHORE_SUCCEEDED in
\* the step that grants it.  A request that is received and does not wait
\* (RESERVE, SEMAPHORE_UP, wait = false, a creation mismatch) has its reply
\* after the step in which it is received.
C30_ReplyStep ==
    /\ \A id \in 1..Len(lmsgs') : Len(lmsgs'[id].replies) <= 1
    /\ \A id \in 1..Len(smsgs') : Len(smsgs'[id].replies) <= 1
    /\ \A id \in 1..Len(rmsgs') : Len(rmsgs'[id].replies) = 1
    /\ \A id \in 1..Len(lmsgs') :
          LET lock == locks'[lmsgs'[id].ctx][lmsgs'[id].lockId] IN
          /\ id \in Range(lock.waiting) => lmsgs'[id].replies = <<>>
          /\ lmsgs'[id].replies = <<>>
             => /\ lmsgs'[id].queued
                /\ id \in Range(lock.waiting) \/ lmsgs'[id].hook = "done"
          /\ (id <= Len(lmsgs) /\ lmsgs[id].replies = <<>>
                /\ lmsgs'[id].replies # <<>>)
             => /\ lmsgs'[id].replies = <<"LOCK_ACQUIRED">>
                /\ id \in Range(LockOf(id).waiting)
                /\ LockOf(id).holderId # id
                /\ lock.holderId = id
    /\ \A id \in 1..Len(smsgs') :
          /\ (InQueue(sems', smsgs', id) /\ ~smsgs'[id].granted)
             => smsgs'[id].replies = <<>>
          /\ (id > Len(smsgs) /\ smsgs'[id].replies = <<>>)
             => /\ smsgs'[id].kind = "down"
                /\ smsgs'[id].wait
                /\ ~smsgs'[id].inEffect.sent
                /\ InQueue(sems', smsgs', id)
          /\ (id <= Len(smsgs) /\ smsgs[id].replies = <<>>
                /\ smsgs'[id].replies # <<>>)
             => /\ smsgs'[id].replies = <<"SEMAPHORE_SUCCEEDED">>
                /\ InQueue(sems, smsgs, id)
                /\ ~smsgs[id].granted
                /\ smsgs[id].wait

C30_OneReply == [][C30_ReplyStep]_vars

\* A lock request that had to wait holds the lock and has its one reply.
C30_Witness ==
    \E id \in LockIdsOfMsgs :
        /\ lmsgs[id].queued
        /\ lmsgs[id].replies = <<"LOCK_ACQUIRED">>
        /\ LockOf(id).holderId = id


\* ---------------------------------------------------------------------
\* Semaphores: wake-ups
\* ---------------------------------------------------------------------

\* C31: the amount of a woken request is taken from the value inside the
\* step that wakes it.  Between two handlers the value of a semaphore is
\* never more than its initial value plus the amounts incremented minus the
\* amounts of all requests granted so far, so that no later downNow,
\* acquireNow or down finds units that a waiter was granted.
C31_GrantedUnitsTaken ==
    \A xs \in SemaphoresOf :
        SemOf(xs).value <= SemOf(xs).initialValue + SemOf(xs).balance

\* The first acquisition was released, a waiting request that came after it
\* holds its amount, which the value lacks, and a non-waiting request that
\* came after both was refused.
C31_Witness ==
    \E xs \in SemaphoresOf :
        /\ SemOf(xs).managed
        /\ SemOf(xs).queue = <<>>
        /\ \E h, i, j \in 1..Len(smsgs) :
              /\ h < i /\ i < j
              /\ smsgs[h].kind = "gone"
              /\ smsgs[h].replies = <<"SEMAPHORE_SUCCEEDED">>
              /\ smsgs[i].kind = "down" /\ smsgs[i].wait
              /\ smsgs[i].granted /\ smsgs[i].acquired = smsgs[i].amount
              /\ smsgs[i].amount + SemOf(xs).value = SemOf(xs).initialValue
              /\ smsgs[j].replies = <<"SEMAPHORE_FAILED">>


\* Request id of a connected client, for at least one unit, waits at the
\* head of its queue, the requests queued before it having been granted or
\* purged, the value is at least its amount, and no teardown callback is
\* left to run.
SemReady(id) ==
    /\ id <= Len(smsgs)
    /\ ~SemTeardownPending
    /\ SemQueued(id)
    /\ connected[smsgs[id].client]
    /\ LET semaphore == sems[smsgs[id].ctx][smsgs[id].sem] IN
         /\ Head(semaphore.queue).id = id
         /\ Head(semaphore.queue).amount >= 1
         /\ Head(semaphore.queue).amount <= semaphore.value

\* Request id was granted, or its test worker exited.
SemSettled(id) ==
    /\ id <= Len(smsgs)
    /\ \/ SemSucceeded(smsgs[id])
       \/ smsgs[id].kind = "gone"
       \/ ~connected[smsgs[id].client]

\* C32: a blocking down/acquire of a connected client that is first in the
\* queue while the value is at least its amount is eventually granted, no
\* client having to send another message.
C32_ReadyEventuallyGranted ==
    \A id \in 1..MaxLiveMsgs : SemReady(id) ~> SemSettled(id)


\* C33: a partial release wakes waiters like an up of the released amount.
\* When the value is 0, all units being held, and the request at the head
\* of the queue asks for k units, a release of k units by a handle that
\* holds more than k grants that request in the same step: it gets
\* SEMAPHORE_SUCCEEDED and leaves the queue.
C33_PartialStep ==
    \A id \in 1..Len(smsgs) :
        LET semaphore == sems[smsgs[id].ctx][smsgs[id].sem] IN
        (/\ ReleasedNow(id) >= 1
         /\ smsgs[id].managed
         /\ smsgs'[id].remaining >= 1
         /\ semaphore.value = 0
         /\ semaphore.queue # <<>>
         /\ Head(semaphore.queue).amount = ReleasedNow(id)
         /\ SemQueued(Head(semaphore.queue).id))
        => LET b == Head(semaphore.queue).id IN
           /\ smsgs'[b].replies = <<"SEMAPHORE_SUCCEEDED">>
           /\ ~InQueue(sems', smsgs', b)

C33_PartialReleaseWakes == [][C33_PartialStep]_vars


\* ---------------------------------------------------------------------
\* Client-side validation
\* ---------------------------------------------------------------------

\* A test calls into index.ts in this step.
CalledNow == call'.bit # call.bit

\* C34: a negative initialValue passed to a constructor, or a negative
\* amount passed to down, downNow, up, acquire, acquireNow or a release
\* handle, throws a RangeError before a message is sent: the semaphores and
\* the messages the worker has received are the same after the call.
C34_NegativeStep ==
    (CalledNow /\ call'.arg < 0)
    => /\ call'.thrown
       /\ sems' = sems
       /\ smsgs' = smsgs

C34_NegativeRejected == [][C34_NegativeStep]_vars

\* A release handle was called with a negative amount while its semaphore
\* exists, and threw.
C34_Witness ==
    /\ call.arg < 0
    /\ call.thrown
    /\ call.op \in {"release of acquire", "release of acquireNow"}
    /\ \E xs \in SemaphoresOf : SemOf(xs).value < SemOf(xs).initialValue

\* C35: a non-integral number is rejected with a RangeError by every call
\* that takes one: the constructors, down, downNow, up, acquire, acquireNow,
\* the release handle of acquire and the release handle of acquireNow.
C35_IntegralStep ==
    (CalledNow /\ ~IsSafeInteger(call'.arg)) => call'.thrown

C35_IntegralUniform == [][C35_IntegralStep]_vars


\* ---------------------------------------------------------------------
\* Managed semaphores: bookkeeping
\* ---------------------------------------------------------------------

\* The amount the worker has as acquired for message id of semaphore xs if
\* the request was granted and its teardown callback has not run.
Outstanding(xs, id) ==
    IF /\ smsgs[id].ctx = xs[1] /\ smsgs[id].sem = xs[2]
       /\ smsgs[id].kind = "down"
       /\ smsgs[id].granted
       /\ smsgs[id].hook = "armed"
    THEN smsgs[id].acquired
    ELSE 0

RECURSIVE SumOutstanding(_, _)
SumOutstanding(xs, n) ==
    IF n = 0 THEN 0
    ELSE Outstanding(xs, n) + SumOutstanding(xs, n - 1)

\* C36: for a managed semaphore the value plus the outstanding amounts of
\* the acquisitions that are granted and not cleaned up is the initial
\* value.
C36_ManagedConservation ==
    \A xs \in SemaphoresOf :
        SemOf(xs).managed
        => SemOf(xs).value + SumOutstanding(xs, Len(smsgs))
             = SemOf(xs).initialValue


\* The amount the worker has as acquired for the granted request id.
AcquiredBy(id) ==
    IF smsgs[id].kind = "down" /\ smsgs[id].granted
    THEN smsgs[id].acquired
    ELSE 0

\* C37: a SEMAPHORE_RELEASE increments the semaphore by the smaller of the
\* amount it carries and the amount still outstanding for its acquisition,
\* hence by nothing once the acquisition was released in full.  Stated with
\* nobody waiting for the semaphore, so that the value shows the increment.
C37_ReleaseStep ==
    (CalledNow /\ call'.op = "SEMAPHORE_RELEASE")
    => LET id == call'.id
           x == smsgs[id].ctx
           s == smsgs[id].sem
       IN sems[x][s].queue = <<>>
          => sems'[x][s].value
               = sems[x][s].value + Min(AcquiredBy(id), call'.arg \div 2)

C37_ReleaseClamped == [][C37_ReleaseStep]_vars


\* The teardown callbacks the host still has to run.
PendingSemHooks ==
    {id \in 1..Len(smsgs) :
        smsgs[id].hook = "armed" /\ ~connected[smsgs[id].client]}

PendingLockHooks ==
    {id \in LockIdsOfMsgs :
        lmsgs[id].hook = "armed" /\ ~connected[lmsgs[id].client]}

\* The orders in which the callbacks of P can run.
Orders(P) ==
    {o \in [1..Cardinality(P) -> P] :
        \A a, b \in 1..Cardinality(P) : a # b => o[a] # o[b]}

\* The host runs the callbacks in the order o, from the tables r on.
RECURSIVE SemTeardownsIn(_, _)
SemTeardownsIn(o, r) ==
    IF o = <<>> THEN r
    ELSE LET t == SemRelease(revision, r.sems, r.smsgs, Head(o), TRUE) IN
         SemTeardownsIn(Tail(o),
                        [sems |-> t.sems,
                         smsgs |-> Collect(t.sems, t.smsgs, connected)])

RECURSIVE LockTeardownsIn(_, _)
LockTeardownsIn(o, r) ==
    IF o = <<>> THEN r
    ELSE LockTeardownsIn(Tail(o), LockRelease(r.locks, r.lmsgs, Head(o)))

\* value and queue of every semaphore
ValuesAndQueues(S) ==
    [x \in DOMAIN S |-> [s \in DOMAIN S[x] |->
        <<S[x][s].value, S[x][s].queue>>]]

SemOrderIndependent ==
    \A o1, o2 \in Orders(PendingSemHooks) :
        ValuesAndQueues(SemTeardownsIn(o1, [sems |-> sems,
                                            smsgs |-> smsgs]).sems)
        = ValuesAndQueues(SemTeardownsIn(o2, [sems |-> sems,
                                              smsgs |-> smsgs]).sems)

LockOrderIndependent ==
    \A o1, o2 \in Orders(PendingLockHooks) :
        LockTeardownsIn(o1, [locks |-> locks, lmsgs |-> lmsgs]).locks
        = LockTeardownsIn(o2, [locks |-> locks, lmsgs |-> lmsgs]).locks

\* C38: whatever the order in which the host runs the teardown callbacks of
\* an exited test worker, every lock has the same holder and waiting list
\* and every semaphore the same value and queue when all of them have run.
C38_OrderIndependent == SemOrderIndependent /\ LockOrderIndependent


\* No request of an exited test worker is the holder or a waiter of a lock.
NoLockOfExited ==
    \A x \in Contexts, l \in LockIds :
        locks[x][l].present
        => /\ locks[x][l].holderId # 0
                => connected[lmsgs[locks[x][l].holderId].client]
           /\ \A id \in Range(locks[x][l].waiting) :
                 connected[lmsgs[id].client]

\* No request of an exited test worker is in the queue of a semaphore.
NoQueuedOfExited ==
    \A xs \in SemaphoresOf : \A id \in QueueIds(SemOf(xs)) :
        smsgs[id].kind # "gone" /\ connected[smsgs[id].client]

\* What exited test workers had acquired from a managed semaphore is back.
\* Stated for the states where every test worker has exited: whatever the
\* value of a managed semaphore lacks then was acquired by an exited worker.
AllReturnedByExited ==
    (\A c \in Clients : ~connected[c])
    => \A xs \in SemaphoresOf :
          SemOf(xs).managed => SemOf(xs).value = SemOf(xs).initialValue

\* C39: when all teardown callbacks of an exited test worker have run, none
\* of its requests holds or waits for a lock, none is in the queue of a
\* semaphore, and what it had acquired from a managed semaphore is back in
\* the semaphore.
C39_NothingLeft ==
    DisconnectProcessed
    => NoLockOfExited /\ NoQueuedOfExited /\ AllReturnedByExited

====
